---- MODULE Spec2Model ----
(***************************************************************************)
(* A model of the search utilities (src/libs/SearchUtils.ts) and of the    *)
(* hook usePreserveReimbursementAccountDraft.                              *)
(*                                                                         *)
(* JavaScript strings that the code inspects character by character are    *)
(* sequences of one-character strings; enumeration members that the code   *)
(* only compares for equality are TLA+ strings.  An object property that   *)
(* is undefined is a record field that is absent.                          *)
(***************************************************************************)
EXTENDS Integers, Sequences, FiniteSets, TLC

(***************************************************************************)
(* The state.  Each part of the program has its variables; a specification *)
(* runs one part and leaves the others idle.                               *)
(***************************************************************************)
\* The implementation of Array.prototype.sort of the build.
VARIABLE engine

\* getSortedTransactionData: the array sorted in place, the array before the
\* last call, the arguments of the last call and the number of calls.
VARIABLES data, prevData, sortBy, sortOrder, sortCalls

\* The search results payload (entries in insertion order) and what
\* getReportSections and getShouldShowMerchant returned for it.
VARIABLES searchData, reportSections, shouldShowMerchant

\* getQueryHash: two query objects and the hash computed for each (none
\* before the call).
VARIABLES queryA, queryB, hashA, hashB

\* getFilters: the syntax tree of a query (none when the query has no
\* filters) and the QueryFilters object returned for it (none before the call).
VARIABLES ast, flattened

\* Query strings: the text given, what buildSearchQueryJSON returned for it
\* (kind "none" before the call) and the results of normalizeQuery applied
\* to the text again and again.
VARIABLES searchText, parsedQuery, normalized

\* buildFilterFormValuesFromQuery: the query and the reference collections
\* given, and the form returned (none before the call).
VARIABLES formQuery, references, filtersForm

\* usePreserveReimbursementAccountDraft.  The store and the props: the
\* network state, the reimbursement account, its stored draft and the step
\* shown.  The component: whether it is mounted, the values of its last
\* render and those that usePrevious gave in that render.  The hook: its two
\* refs and whether the connection effect left a cleanup.  Onyx: the
\* connections that are active, each with the values its callback closed
\* over and the drafts it has still to be called with.
VARIABLES isOffline, reimbursementAccount, reimbursementAccountDraft, currentStep
VARIABLES mounted, rendered, previous
VARIABLES preservedDraftRef, connectionRef, hasCleanup, connections

\* sanitizeString: the string given and what was returned for it (none
\* before the call).
VARIABLES sanitizeInput, sanitized

\* The lists of the search page: the type and the status of the query, the
\* payload, and what getListItem, getSections and getSortedSections
\* returned (none before the call).
VARIABLES listType, listStatus, listData, listItem, sections, sortedSections

\* buildQueryStringFromFilterFormValues: the form given, and the array of
\* parts and the string of the call (none before the call).
VARIABLES formValues, filtersString, queryString

\* getSortedReportData: the list of reports, the newest transaction date
\* computed for each (with the id of the report) and the list returned by the sort (none before the
\* calls).
VARIABLES reportList, newestDates, sortedReports

\* buildFilterString: the key and the constraints given, and the string
\* returned (none before the call).
VARIABLES constraintKey, keyFilters, filterString

\* shouldShowYear: the time zone of the device, the payload, the type and
\* status of the list, the list items built and what shouldShowYear
\* returned for the payload and for the items (none before the call).
VARIABLES timeZone, yearData, yearView, yearItems, yearOfData, yearOfItems

sortVars == <<data, prevData, sortBy, sortOrder, sortCalls>>

sectionVars == <<searchData, reportSections, shouldShowMerchant>>

hashVars == <<queryA, queryB, hashA, hashB>>

filterVars == <<ast, flattened>>

queryVars == <<searchText, parsedQuery, normalized>>

formVars == <<formQuery, references, filtersForm>>

storeVars == <<isOffline, reimbursementAccount, reimbursementAccountDraft, currentStep>>

hookVars == <<storeVars, mounted, rendered, previous, preservedDraftRef, connectionRef, hasCleanup, connections>>

sanitizeVars == <<sanitizeInput, sanitized>>

listVars == <<listType, listStatus, listData, listItem, sections, sortedSections>>

builderVars == <<formValues, filtersString, queryString>>

reportSortVars == <<reportList, newestDates, sortedReports>>

filterStringVars == <<constraintKey, keyFilters, filterString>>

yearVars == <<timeZone, yearData, yearView, yearItems, yearOfData, yearOfItems>>

vars == <<engine, sortVars, sectionVars, hashVars, filterVars, queryVars, formVars, hookVars, sanitizeVars, listVars, builderVars, reportSortVars, filterStringVars, yearVars>>

\* What the actions of a part leave alone.
exceptYear == <<engine, sortVars, sectionVars, hashVars, filterVars, queryVars, formVars, hookVars, sanitizeVars, listVars, builderVars, reportSortVars, filterStringVars>>

exceptFilterString == <<engine, sortVars, sectionVars, hashVars, filterVars, queryVars, formVars, hookVars, sanitizeVars, listVars, builderVars, reportSortVars, yearVars>>

exceptReportSort == <<engine, sortVars, sectionVars, hashVars, filterVars, queryVars, formVars, hookVars, sanitizeVars, listVars, builderVars, filterStringVars, yearVars>>

exceptBuilder == <<engine, sortVars, sectionVars, hashVars, filterVars, queryVars, formVars, hookVars, sanitizeVars, listVars, reportSortVars, filterStringVars, yearVars>>

exceptLists == <<engine, sortVars, sectionVars, hashVars, filterVars, queryVars, formVars, hookVars, sanitizeVars, builderVars, reportSortVars, filterStringVars, yearVars>>

exceptSanitize == <<engine, sortVars, sectionVars, hashVars, filterVars, queryVars, formVars, hookVars, listVars, builderVars, reportSortVars, filterStringVars, yearVars>>

exceptSort == <<engine, sectionVars, hashVars, filterVars, queryVars, formVars, hookVars, sanitizeVars, listVars, builderVars, reportSortVars, filterStringVars, yearVars>>

exceptSections == <<engine, sortVars, hashVars, filterVars, queryVars, formVars, hookVars, sanitizeVars, listVars, builderVars, reportSortVars, filterStringVars, yearVars>>

exceptHash == <<engine, sortVars, sectionVars, filterVars, queryVars, formVars, hookVars, sanitizeVars, listVars, builderVars, reportSortVars, filterStringVars, yearVars>>

exceptQuery == <<engine, sortVars, sectionVars, hashVars, filterVars, formVars, hookVars, sanitizeVars, listVars, builderVars, reportSortVars, filterStringVars, yearVars>>

exceptForm == <<engine, sortVars, sectionVars, hashVars, filterVars, queryVars, hookVars, sanitizeVars, listVars, builderVars, reportSortVars, filterStringVars, yearVars>>

exceptHook == <<engine, sortVars, sectionVars, hashVars, filterVars, queryVars, formVars, sanitizeVars, listVars, builderVars, reportSortVars, filterStringVars, yearVars>>

exceptFilters == <<engine, sortVars, sectionVars, hashVars, queryVars, formVars, hookVars, sanitizeVars, listVars, builderVars, reportSortVars, filterStringVars, yearVars>>

Range(s) == {s[i] : i \in 1..Len(s)}

Reverse(s) == [i \in 1..Len(s) |-> s[Len(s) + 1 - i]]

\* The value of an optional enumeration member that is not given.
Undefined == "undefined"

(***************************************************************************)
(* Characters.                                                             *)
(***************************************************************************)
Ascii ==
  << " ", "!", "\"", "#", "$", "%", "&", "'", "(", ")", "*", "+",
     ",", "-", ".", "/", "0", "1", "2", "3", "4", "5", "6", "7",
     "8", "9", ":", ";", "<", "=", ">", "?", "@", "A", "B", "C",
     "D", "E", "F", "G", "H", "I", "J", "K", "L", "M", "N", "O",
     "P", "Q", "R", "S", "T", "U", "V", "W", "X", "Y", "Z", "[",
     "bs", "]", "^", "_", "bt", "a", "b", "c", "d", "e", "f", "g",
     "h", "i", "j", "k", "l", "m", "n", "o", "p", "q", "r", "s",
     "t", "u", "v", "w", "x", "y", "z", "{", "|", "}", "~" >>

\* The UTF-16 code unit of a character (String.prototype.charCodeAt); "bs"
\* stands for the backslash and "bt" for the grave accent.
CharCode == [c \in Range(Ascii) |-> 31 + (CHOOSE i \in 1..Len(Ascii) : Ascii[i] = c)]

CharOfCode(n) == Ascii[n - 31]

IsUpper(c) == CharCode[c] >= 65 /\ CharCode[c] <= 90

IsLower(c) == CharCode[c] >= 97 /\ CharCode[c] <= 122

IsDigit(c) == CharCode[c] >= 48 /\ CharCode[c] <= 57

\* String.prototype.toLowerCase on the ASCII range.
ToLowerCase(s) == [i \in 1..Len(s) |-> IF IsUpper(s[i]) THEN CharOfCode(CharCode[s[i]] + 32) ELSE s[i]]

RECURSIVE StrCompareFrom(_, _, _)
\* The relational comparison of two strings (code unit by code unit): -1, 0 or 1.
StrCompareFrom(a, b, i) ==
  IF i > Len(a) /\ i > Len(b) THEN 0
  ELSE IF i > Len(a) THEN -1
  ELSE IF i > Len(b) THEN 1
  ELSE IF CharCode[a[i]] < CharCode[b[i]] THEN -1
  ELSE IF CharCode[a[i]] > CharCode[b[i]] THEN 1
  ELSE StrCompareFrom(a, b, i + 1)

\* a > b on strings.
StrGreater(a, b) == StrCompareFrom(a, b, 1) = 1

\* The primary collation weight of a character: letters without their case.
PrimaryWeight(c) == IF IsUpper(c) THEN CharCode[c] + 32 ELSE CharCode[c]

RECURSIVE PrimaryCompareFrom(_, _, _)
PrimaryCompareFrom(a, b, i) ==
  IF i > Len(a) /\ i > Len(b) THEN 0
  ELSE IF i > Len(a) THEN -1
  ELSE IF i > Len(b) THEN 1
  ELSE IF PrimaryWeight(a[i]) < PrimaryWeight(b[i]) THEN -1
  ELSE IF PrimaryWeight(a[i]) > PrimaryWeight(b[i]) THEN 1
  ELSE PrimaryCompareFrom(a, b, i + 1)

RECURSIVE CaseCompareFrom(_, _, _)
\* The tertiary difference of two strings of equal primary weights: at the
\* first position where the case differs the lower-case letter sorts first.
CaseCompareFrom(a, b, i) ==
  IF i > Len(a) THEN 0
  ELSE IF a[i] = b[i] THEN CaseCompareFrom(a, b, i + 1)
  ELSE IF IsLower(a[i]) THEN -1 ELSE 1

\* String.prototype.localeCompare with the default collation, on ASCII
\* letters and digits: the base letters decide, the case breaks ties.
LocaleCompare(a, b) ==
  LET primary == PrimaryCompareFrom(a, b, 1) IN
  IF primary # 0 THEN primary ELSE CaseCompareFrom(a, b, 1)

(***************************************************************************)
(* Array.prototype.sort.  The comparator is a function on pairs of         *)
(* elements.  With a comparator that is not consistent the order is        *)
(* implementation-defined: the variable engine is the implementation of    *)
(* the build, and both are modelled on arrays short enough to be sorted by *)
(* one insertion pass.                                                     *)
(***************************************************************************)
Engines == {"timsort", "insertion"}

RECURSIVE RunEnd(_, _, _, _)
\* TimSort's CountAndMakeRun: the last index of the run that starts the array.
RunEnd(a, cmp, isDescending, idx) ==
  IF idx > Len(a) THEN idx - 1
  ELSE LET order == cmp[<<a[idx], a[idx - 1]>>] IN
       IF (isDescending /\ order >= 0) \/ (~isDescending /\ order < 0)
       THEN idx - 1
       ELSE RunEnd(a, cmp, isDescending, idx + 1)

\* The array with its first run made ascending, and the length of the run.
CountAndMakeRun(a, cmp) ==
  LET isDescending == cmp[<<a[2], a[1]>>] < 0
      runLength == RunEnd(a, cmp, isDescending, 3)
  IN [arr |-> IF isDescending
              THEN [i \in 1..Len(a) |-> IF i <= runLength THEN a[runLength + 1 - i] ELSE a[i]]
              ELSE a,
      runLength |-> runLength]

RECURSIVE BinaryInsertionPoint(_, _, _, _, _)
\* The place of pivot in the sorted prefix a[left .. right-1].
BinaryInsertionPoint(a, cmp, pivot, left, right) ==
  IF left >= right THEN left
  ELSE LET mid == left + ((right - left) \div 2) IN
       IF cmp[<<pivot, a[mid]>>] < 0
       THEN BinaryInsertionPoint(a, cmp, pivot, left, mid)
       ELSE BinaryInsertionPoint(a, cmp, pivot, mid + 1, right)

\* a with the element at index from moved to index to (to <= from).
MoveDown(a, from, to) ==
  [k \in 1..Len(a) |-> IF k < to THEN a[k]
                       ELSE IF k = to THEN a[from]
                       ELSE IF k <= from THEN a[k - 1]
                       ELSE a[k]]

RECURSIVE BinaryInsertionSort(_, _, _)
BinaryInsertionSort(a, cmp, start) ==
  IF start > Len(a) THEN a
  ELSE BinaryInsertionSort(
         MoveDown(a, start, BinaryInsertionPoint(a, cmp, a[start], 1, start)),
         cmp, start + 1)

\* V8: a run is counted, then the rest is inserted by binary search.
TimSort(a, cmp) ==
  LET run == CountAndMakeRun(a, cmp) IN
  BinaryInsertionSort(run.arr, cmp, run.runLength + 1)

RECURSIVE InsertionPoint(_, _, _, _)
\* The index after which item is put: the scan goes down from j and stops
\* at the first element that compares <= 0 with item.
InsertionPoint(a, cmp, item, j) ==
  IF j < 1 THEN 0
  ELSE IF cmp[<<a[j], item>>] <= 0 THEN j
  ELSE InsertionPoint(a, cmp, item, j - 1)

RECURSIVE InsertionSort(_, _, _)
\* SpiderMonkey: a linear insertion sort.
InsertionSort(a, cmp, i) ==
  IF i > Len(a) THEN a
  ELSE InsertionSort(MoveDown(a, i, InsertionPoint(a, cmp, a[i], i - 1) + 1), cmp, i + 1)

ArraySort(a, cmp, eng) ==
  IF Len(a) < 2 THEN a
  ELSE IF eng = "timsort" THEN TimSort(a, cmp)
  ELSE InsertionSort(a, cmp, 2)

(***************************************************************************)
(* Sorting of transaction rows: getSortedTransactionData.                  *)
(***************************************************************************)
\* The rows of a list are at most MaxRows, the calls of the sort at most MaxSortCalls.
MaxRows == 3

MaxSortCalls == 2

\* CONST.SEARCH.TABLE_COLUMNS, by the names of the columns.
TableColumns ==
  {"to", "from", "date", "tag", "merchant", "total amount", "category", "type",
   "action", "description", "tax amount", "receipt"}

columnNamesToSortingProperty ==
  [c \in TableColumns |->
     CASE c = "to" -> "formattedTo"
       [] c = "from" -> "formattedFrom"
       [] c = "date" -> "date"
       [] c = "tag" -> "tag"
       [] c = "merchant" -> "formattedMerchant"
       [] c = "total amount" -> "formattedTotal"
       [] c = "category" -> "category"
       [] c = "type" -> "transactionType"
       [] c = "action" -> "action"
       [] c = "description" -> "comment"
       [] c = "tax amount" -> "null"
       [] c = "receipt" -> "null"]

\* Values of row properties: numbers and strings, told apart as typeof does.
Num(n) == [num |-> n]

Str(s) == [str |-> s]

IsString(v) == "str" \in DOMAIN v

\* a[sortingProperty], or a.comment?.comment: <<>> when undefined, else <<value>>.
SortValue(row, sortingProperty) ==
  IF sortingProperty = "comment"
  THEN IF "comment" \in DOMAIN row /\ "comment" \in DOMAIN row.comment
       THEN <<row.comment.comment>> ELSE <<>>
  ELSE IF sortingProperty \in DOMAIN row THEN <<row[sortingProperty]>> ELSE <<>>

\* A comparator that orders numbers the wrong way round.
CompareRowsInverted(a, b, sortingProperty, order) ==
  LET aValue == SortValue(a, sortingProperty)
      bValue == SortValue(b, sortingProperty)
  IN IF aValue = <<>> \/ bValue = <<>> THEN 0
     ELSE IF IsString(aValue[1]) /\ IsString(bValue[1])
     THEN IF order = "asc"
          THEN LocaleCompare(ToLowerCase(aValue[1].str), bValue[1].str)
          ELSE LocaleCompare(ToLowerCase(bValue[1].str), aValue[1].str)
     ELSE IF order = "asc" THEN bValue[1].num - aValue[1].num
          ELSE aValue[1].num - bValue[1].num

\* The comparator handed to data.sort.
CompareRows(a, b, sortingProperty, order) ==
  LET aValue == SortValue(a, sortingProperty)
      bValue == SortValue(b, sortingProperty)
  IN IF aValue = <<>> \/ bValue = <<>> THEN 0
     ELSE IF IsString(aValue[1]) /\ IsString(bValue[1])
     THEN IF order = "asc"
          THEN LocaleCompare(ToLowerCase(aValue[1].str), bValue[1].str)
          ELSE LocaleCompare(ToLowerCase(bValue[1].str), aValue[1].str)
     ELSE IF order = "asc" THEN aValue[1].num - bValue[1].num
          ELSE bValue[1].num - aValue[1].num

getSortedTransactionData(rows, by, order, eng) ==
  IF by = Undefined \/ order = Undefined THEN rows
  ELSE LET sortingProperty == columnNamesToSortingProperty[by] IN
       IF sortingProperty = "null" THEN rows
       ELSE ArraySort(rows,
                      [p \in Range(rows) \X Range(rows) |->
                         CompareRows(p[1], p[2], sortingProperty, order)],
                      eng)

\* The totals of the rows of the model; a row may have none.
Totals == {-200, 0, 500}

TransactionRow(id, total) ==
  IF total = <<>> THEN [transactionID |-> id]
  ELSE [transactionID |-> id, formattedTotal |-> Num(total[1])]

TransactionLists ==
  UNION {{[i \in 1..n |-> TransactionRow(i, f[i])] :
            f \in [1..n -> {<<>>} \cup {<<t>> : t \in Totals}]} : n \in 0..MaxRows}

SortColumns == {"total amount", "merchant", "receipt", Undefined}

SortOrders == {"asc", "desc", Undefined}

InitSort ==
  /\ data \in TransactionLists
  /\ prevData = data
  /\ sortBy = Undefined
  /\ sortOrder = Undefined
  /\ sortCalls = 0

IdleSort ==
  /\ data = <<>>
  /\ prevData = <<>>
  /\ sortBy = Undefined
  /\ sortOrder = Undefined
  /\ sortCalls = 0

\* One call of getSortedTransactionData: data.sort sorts the array in place.
SortTransactions ==
  /\ sortCalls < MaxSortCalls
  /\ \E by \in SortColumns, order \in SortOrders :
       /\ sortBy' = by
       /\ sortOrder' = order
       /\ prevData' = data
       /\ data' = getSortedTransactionData(data, by, order, engine)
  /\ sortCalls' = sortCalls + 1
  /\ UNCHANGED exceptSort

NextSort == SortTransactions

\* The totals of a list, <<>> for a row that has none.
TotalsOf(rows) ==
  [i \in 1..Len(rows) |-> IF "formattedTotal" \in DOMAIN rows[i] THEN <<rows[i].formattedTotal.num>> ELSE <<>>]

AllDefined(rows) == \A i \in 1..Len(rows) : "formattedTotal" \in DOMAIN rows[i]

IsPermutation(a, b) ==
  /\ Len(a) = Len(b)
  /\ \A x \in Range(a) \cup Range(b) :
       Cardinality({i \in 1..Len(a) : a[i] = x}) = Cardinality({i \in 1..Len(b) : b[i] = x})

SortedByTotal ==
  /\ sortCalls > 0
  /\ sortBy = "total amount"
  /\ sortOrder # Undefined
  /\ AllDefined(prevData)

\* C6: sorted by the total amount column with every total defined, the rows
\* come out in non-decreasing order of the total for ascending and in
\* non-increasing order for descending, the descending result is the reverse
\* of the ascending one when the totals are distinct, and the result is a
\* permutation of the rows given.
C6_NumericSortOrdersRows ==
  SortedByTotal =>
    /\ IsPermutation(data, prevData)
    /\ \A i \in 1..Len(data), j \in 1..Len(data) :
         i < j => IF sortOrder = "asc"
                  THEN data[i].formattedTotal.num <= data[j].formattedTotal.num
                  ELSE data[i].formattedTotal.num >= data[j].formattedTotal.num
    /\ (sortOrder = "desc" /\ Cardinality(Range(TotalsOf(prevData))) = Len(prevData))
         => data = Reverse(getSortedTransactionData(prevData, sortBy, "asc", engine))

C6_Witness ==
  /\ SortedByTotal
  /\ sortOrder = "asc"
  /\ TotalsOf(prevData) = << <<500>>, <<-200>>, <<0>> >>
  /\ TotalsOf(data) = << <<-200>>, <<0>>, <<500>> >>

\* The rows that have a value of the sorting property, in their order.
DefinedRows(rows) == SelectSeq(rows, LAMBDA r : "formattedTotal" \in DOMAIN r)

\* C7: sorted by a mapped column, a row whose sort value is undefined keeps
\* its position in the list and the rows with a value are ordered by the
\* column and direction among themselves.
C7_UndefinedRowKeepsPosition ==
  (sortCalls > 0 /\ sortBy = "total amount" /\ sortOrder # Undefined) =>
    /\ \A i \in 1..Len(prevData) :
         "formattedTotal" \notin DOMAIN prevData[i] => data[i] = prevData[i]
    /\ LET defined == DefinedRows(data) IN
       \A i \in 1..Len(defined), j \in 1..Len(defined) :
         i < j => IF sortOrder = "asc"
                  THEN defined[i].formattedTotal.num <= defined[j].formattedTotal.num
                  ELSE defined[i].formattedTotal.num >= defined[j].formattedTotal.num

\* The merchants of the rows sorted by a string column: two letters, each in
\* lower and in upper case.
Merchants == {<<"a">>, <<"A">>, <<"b">>, <<"B">>}

MerchantRow(id, merchant) == [transactionID |-> id, formattedMerchant |-> Str(merchant)]

MerchantLists ==
  UNION {{[i \in 1..n |-> MerchantRow(i, f[i])] : f \in [1..n -> Merchants]} : n \in 0..MaxRows}

\* The list handed to getSortedTransactionData has rows with a merchant.
InitStringSort ==
  /\ data \in MerchantLists
  /\ prevData = data
  /\ sortBy = Undefined
  /\ sortOrder = Undefined
  /\ sortCalls = 0

SortedByMerchant ==
  /\ sortCalls > 0
  /\ sortBy = "merchant"
  /\ sortOrder # Undefined

\* The two lists have the same rows but for the case of the letters.
SameButForCase(a, b) ==
  /\ Len(a) = Len(b)
  /\ \A i \in 1..Len(a) :
       /\ a[i].transactionID = b[i].transactionID
       /\ ToLowerCase(a[i].formattedMerchant.str) = ToLowerCase(b[i].formattedMerchant.str)

IdsOf(rows) == [i \in 1..Len(rows) |-> rows[i].transactionID]

Sign(n) == IF n < 0 THEN -1 ELSE IF n > 0 THEN 1 ELSE 0

\* C25: sorting by a string column ignores the case of the letters: the
\* comparison of two rows is that of their lower-cased values, the list
\* with the case of any of its values changed is sorted into the same
\* order, and the ascending and the descending comparison of two rows are
\* opposite.
C25_StringSortIgnoresCase ==
  SortedByMerchant =>
    /\ \A a, b \in Range(prevData) :
         /\ Sign(CompareRows(a, b, "formattedMerchant", sortOrder))
              = Sign(IF sortOrder = "asc"
                     THEN StrCompareFrom(ToLowerCase(a.formattedMerchant.str),
                                         ToLowerCase(b.formattedMerchant.str), 1)
                     ELSE StrCompareFrom(ToLowerCase(b.formattedMerchant.str),
                                         ToLowerCase(a.formattedMerchant.str), 1))
         /\ Sign(CompareRows(a, b, "formattedMerchant", "asc"))
              = -Sign(CompareRows(a, b, "formattedMerchant", "desc"))
    /\ \A other \in MerchantLists :
         SameButForCase(other, prevData) =>
           IdsOf(getSortedTransactionData(other, sortBy, sortOrder, engine)) = IdsOf(data)

(***************************************************************************)
(* The search results payload and the sections built from it.  The payload *)
(* is an object: its entries are kept in the order of insertion, which is  *)
(* the order in which for-in and Object.keys visit them.                   *)
(***************************************************************************)
\* The entries of a payload besides personalDetailsList are at most MaxEntries.
MaxEntries == 3

COLLECTION_REPORT == <<"r", "e", "p", "o", "r", "t", "_">>

COLLECTION_TRANSACTION == <<"t", "r", "a", "n", "s", "a", "c", "t", "i", "o", "n", "_">>

COLLECTION_REPORT_ACTIONS == <<"r", "e", "p", "o", "r", "t", "A", "c", "t", "i", "o", "n", "s", "_">>

PERSONAL_DETAILS_LIST == <<"p", "e", "r", "s", "o", "n", "a", "l", "D", "e", "t", "a", "i", "l", "s", "L", "i", "s", "t">>

PARTIAL_TRANSACTION_MERCHANT == "(none)"

DEFAULT_MERCHANT == "Expense"

OWNER_ACCOUNT_ID_FAKE == 0

\* String.prototype.startsWith.
StartsWith(s, prefix) == Len(s) >= Len(prefix) /\ SubSeq(s, 1, Len(prefix)) = prefix

isReportEntry(key) == StartsWith(key, COLLECTION_REPORT)

isTransactionEntry(key) == StartsWith(key, COLLECTION_TRANSACTION)

isReportActionEntry(key) == StartsWith(key, COLLECTION_REPORT_ACTIONS)

\* A record without one of its fields, and a record of one optional field.
Without(r, f) == [k \in DOMAIN r \ {f} |-> r[k]]

Optional(f, o) == IF o = <<>> THEN [k \in {} |-> k] ELSE (f :> o[1])

emptyPersonalDetails == [accountID |-> OWNER_ACCOUNT_ID_FAKE, avatar |-> ""]

\* data.personalDetailsList?.[accountID]: <<>> when undefined.
PersonalDetailsOf(d, accountID) ==
  LET lists == {i \in 1..Len(d) : d[i].key = PERSONAL_DETAILS_LIST} IN
  IF lists = {} THEN <<>>
  ELSE LET list == d[CHOOSE i \in lists : TRUE].value IN
       IF accountID \in DOMAIN list THEN <<list[accountID]>> ELSE <<>>

\* managerID ? data.personalDetailsList?.[managerID] : emptyPersonalDetails
ManagerOf(d, item) ==
  IF "managerID" \in DOMAIN item /\ item.managerID # 0
  THEN PersonalDetailsOf(d, item.managerID)
  ELSE <<emptyPersonalDetails>>

\* person?.displayName ?? person?.login ?? fallback
NameOf(person, fallback) ==
  IF person = <<>> THEN fallback
  ELSE IF "displayName" \in DOMAIN person[1] THEN person[1].displayName
  ELSE IF "login" \in DOMAIN person[1] THEN person[1].login
  ELSE fallback

\* The merchant without the precedence of modifiedMerchant.
MerchantIgnoringModified(item) ==
  IF "merchant" \in DOMAIN item THEN item.merchant ELSE ""

\* item.modifiedMerchant ? item.modifiedMerchant : item.merchant ?? ''
MerchantOf(item) ==
  IF "modifiedMerchant" \in DOMAIN item /\ item.modifiedMerchant # ""
  THEN item.modifiedMerchant
  ELSE IF "merchant" \in DOMAIN item THEN item.merchant ELSE ""

getShouldShowMerchant(d) ==
  \E i \in 1..Len(d) :
    /\ isTransactionEntry(d[i].key)
    /\ LET merchant == MerchantOf(d[i].value) IN
       /\ merchant # ""
       /\ merchant # PARTIAL_TRANSACTION_MERCHANT
       /\ merchant # DEFAULT_MERCHANT

\* The properties getTransactionItemCommonFormattedProperties adds, but for
\* formattedTotal, which TransactionUtils.getAmount computes.
getTransactionItemCommonFormattedProperties(transactionItem, from, to) ==
  LET merchant == MerchantOf(transactionItem) IN
  [formattedFrom |-> NameOf(from, ""),
   formattedTo |-> NameOf(to, ""),
   date |-> IF "modifiedCreated" \in DOMAIN transactionItem /\ transactionItem.modifiedCreated # <<>>
            THEN transactionItem.modifiedCreated ELSE transactionItem.created,
   formattedMerchant |-> IF merchant = PARTIAL_TRANSACTION_MERCHANT \/ merchant = DEFAULT_MERCHANT
                         THEN "" ELSE merchant]

\* The list item of a transaction (the column flags of the metadata and
\* shouldShowYear are left out).
TransactionListItemOf(d, transactionItem) ==
  LET from == PersonalDetailsOf(d, transactionItem.accountID)
      to == ManagerOf(d, transactionItem)
  IN getTransactionItemCommonFormattedProperties(transactionItem, from, to)
       @@ [from |-> from, to |-> to,
           shouldShowMerchant |-> getShouldShowMerchant(d),
           keyForList |-> transactionItem.transactionID]
       @@ transactionItem

\* translateLocal of the two phrases of an IOU report, as a text.
getIOUReportName(d, reportItem) ==
  LET payerName == NameOf(ManagerOf(d, reportItem), "Hidden")
      formattedAmount ==
        ToString(IF "total" \in DOMAIN reportItem THEN reportItem.total ELSE 0)
          \o " " \o (IF "currency" \in DOMAIN reportItem THEN reportItem.currency ELSE "USD")
  IN IF "action" \in DOMAIN reportItem /\ reportItem.action = "view"
     THEN <<payerName \o " owes " \o formattedAmount>>
     ELSE IF "action" \in DOMAIN reportItem /\ reportItem.action = "paid"
     THEN <<payerName \o " paid " \o formattedAmount>>
     ELSE IF "reportName" \in DOMAIN reportItem THEN <<reportItem.reportName>> ELSE <<>>

\* reportIDToTransactions is an object too: a sequence of keys with their items.
IndexOfKey(acc, key) ==
  IF \E i \in 1..Len(acc) : acc[i].key = key
  THEN CHOOSE i \in 1..Len(acc) : acc[i].key = key
  ELSE 0

\* One round of the loop of getReportSections, for the entry of a key.
ReportSectionsStep(d, acc, entry) ==
  IF isReportEntry(entry.key)
  THEN LET reportItem == entry.value
           reportKey == COLLECTION_REPORT \o reportItem.reportID
           idx == IndexOfKey(acc, reportKey)
           transactions == IF idx # 0 /\ "transactions" \in DOMAIN acc[idx].item
                           THEN acc[idx].item.transactions ELSE <<>>
           reportName == IF reportItem.type = "iou" THEN getIOUReportName(d, reportItem)
                         ELSE IF "reportName" \in DOMAIN reportItem
                         THEN <<reportItem.reportName>> ELSE <<>>
           item == Optional("reportName", reportName)
                     @@ [keyForList |-> reportItem.reportID,
                         from |-> PersonalDetailsOf(d, IF "accountID" \in DOMAIN reportItem
                                                       THEN reportItem.accountID ELSE -1),
                         to |-> ManagerOf(d, reportItem),
                         transactions |-> transactions]
                     @@ Without(reportItem, "reportName")
       IN IF idx # 0 THEN [acc EXCEPT ![idx].item = item]
          ELSE Append(acc, [key |-> reportKey, item |-> item])
  ELSE IF isTransactionEntry(entry.key)
  THEN LET transactionItem == entry.value
           reportKey == COLLECTION_REPORT \o transactionItem.reportID
           idx == IndexOfKey(acc, reportKey)
           transaction == TransactionListItemOf(d, transactionItem)
       IN IF idx # 0 /\ "transactions" \in DOMAIN acc[idx].item
          THEN [acc EXCEPT ![idx].item =
                  [transactions |-> Append(acc[idx].item.transactions, transaction)] @@ acc[idx].item]
          ELSE IF idx # 0
          THEN [acc EXCEPT ![idx].item = [transactions |-> <<transaction>>] @@ acc[idx].item]
          ELSE acc
  ELSE acc

RECURSIVE ReportSectionsFrom(_, _, _)
ReportSectionsFrom(d, i, acc) ==
  IF i > Len(d) THEN acc
  ELSE ReportSectionsFrom(d, i + 1, ReportSectionsStep(d, acc, d[i]))

\* Object.values(reportIDToTransactions)
getReportSections(d) ==
  LET reportIDToTransactions == ReportSectionsFrom(d, 1, <<>>) IN
  [i \in 1..Len(reportIDToTransactions) |-> reportIDToTransactions[i].item]

\* The payloads of the model.
PersonalDetails ==
  [id \in {1, 2} |-> IF id = 1 THEN [accountID |-> 1, displayName |-> "Alice", login |-> "alice@x.com"]
                     ELSE [accountID |-> 2, login |-> "bob@x.com"]]

ReportEntries ==
  { [key |-> COLLECTION_REPORT \o <<"1">>,
     value |-> [reportID |-> <<"1">>, type |-> "expense", reportName |-> "Report 1",
                accountID |-> 1, managerID |-> 2]],
    [key |-> COLLECTION_REPORT \o <<"2">>,
     value |-> [reportID |-> <<"2">>, type |-> "iou", action |-> "view", total |-> 100,
                accountID |-> 2, managerID |-> 1]] }

\* merchant and modifiedMerchant of the transactions; <<>> for undefined.
MerchantCases ==
  { [merchant |-> <<"Coffee Shop">>, modifiedMerchant |-> <<>>],
    [merchant |-> <<"">>, modifiedMerchant |-> <<>>],
    [merchant |-> <<PARTIAL_TRANSACTION_MERCHANT>>, modifiedMerchant |-> <<>>],
    [merchant |-> <<DEFAULT_MERCHANT>>, modifiedMerchant |-> <<>>],
    [merchant |-> <<>>, modifiedMerchant |-> <<>>],
    [merchant |-> <<"Coffee Shop">>, modifiedMerchant |-> <<PARTIAL_TRANSACTION_MERCHANT>>],
    [merchant |-> <<PARTIAL_TRANSACTION_MERCHANT>>, modifiedMerchant |-> <<"Coffee Shop">>],
    [merchant |-> <<"Coffee Shop">>, modifiedMerchant |-> <<"">>] }

TransactionEntry(id, reportID, m) ==
  [key |-> COLLECTION_TRANSACTION \o id,
   value |-> Optional("merchant", m.merchant) @@ Optional("modifiedMerchant", m.modifiedMerchant)
               @@ [transactionID |-> id, reportID |-> reportID, created |-> <<"2", "0", "2", "4", "-", "0", "1", "-", "0", "1">>,
                   accountID |-> 1, managerID |-> 2]]

TransactionEntries ==
  {TransactionEntry(<<"7">>, <<"1">>, m) : m \in MerchantCases}
    \cup {TransactionEntry(<<"8">>, r, m) : r \in {<<"1">>, <<"2">>}, m \in MerchantCases}

ReportActionEntries ==
  { [key |-> COLLECTION_REPORT_ACTIONS \o <<"1">>,
     value |-> <<[reportActionID |-> <<"5">>, accountID |-> 1, created |-> <<"2", "0", "2", "4", "-", "0", "1", "-", "0", "2">>]>>] }

PayloadEntries == ReportEntries \cup TransactionEntries \cup ReportActionEntries

InitSections ==
  /\ searchData = <<[key |-> PERSONAL_DETAILS_LIST, value |-> PersonalDetails]>>
  /\ reportSections = <<>>
  /\ shouldShowMerchant = <<>>

IdleSections ==
  /\ searchData = <<>>
  /\ reportSections = <<>>
  /\ shouldShowMerchant = <<>>

\* A result arrives: its key is added to the payload.
AddEntry ==
  /\ reportSections = <<>>
  /\ shouldShowMerchant = <<>>
  /\ Len(searchData) <= MaxEntries
  /\ \E entry \in PayloadEntries :
       /\ \A i \in 1..Len(searchData) : searchData[i].key # entry.key
       /\ searchData' = Append(searchData, entry)
  /\ UNCHANGED <<reportSections, shouldShowMerchant>>
  /\ UNCHANGED exceptSections

GetReportSections ==
  /\ reportSections = <<>>
  /\ reportSections' = <<getReportSections(searchData)>>
  /\ UNCHANGED <<searchData, shouldShowMerchant>>
  /\ UNCHANGED exceptSections

GetShouldShowMerchant ==
  /\ shouldShowMerchant = <<>>
  /\ shouldShowMerchant' = <<getShouldShowMerchant(searchData)>>
  /\ UNCHANGED <<searchData, reportSections>>
  /\ UNCHANGED exceptSections

NextSections == AddEntry \/ GetReportSections \/ GetShouldShowMerchant

\* The transaction records of the payload, in the order of their keys.
TransactionRecords(d) ==
  LET entries == SelectSeq(d, LAMBDA e : isTransactionEntry(e.key)) IN
  [i \in 1..Len(entries) |-> entries[i].value]

\* C4: whatever the order of the keys, the item of a report holds every
\* transaction record whose reportID is that report, in the order in which
\* they are met.
C4_ReportHoldsItsTransactions ==
  reportSections # <<>> =>
    \A i \in 1..Len(searchData) :
      isReportEntry(searchData[i].key) =>
        \E item \in Range(reportSections[1]) :
          /\ item.reportID = searchData[i].value.reportID
          /\ [k \in 1..Len(item.transactions) |-> item.transactions[k].transactionID]
               = LET mine == SelectSeq(TransactionRecords(searchData),
                                       LAMBDA t : t.reportID = searchData[i].value.reportID)
                 IN [k \in 1..Len(mine) |-> mine[k].transactionID]

\* C10: getShouldShowMerchant is true exactly when some transaction record has
\* a merchant (modifiedMerchant first, when set) that is neither empty nor one
\* of the two placeholders.
C10_ShouldShowMerchantIffRealMerchant ==
  shouldShowMerchant # <<>> =>
    (shouldShowMerchant[1] <=>
       \E t \in Range(TransactionRecords(searchData)) :
         LET shown == IF "modifiedMerchant" \in DOMAIN t /\ t.modifiedMerchant # ""
                      THEN t.modifiedMerchant
                      ELSE IF "merchant" \in DOMAIN t THEN t.merchant ELSE ""
         IN shown \notin {"", PARTIAL_TRANSACTION_MERCHANT, DEFAULT_MERCHANT})

C10_Witness ==
  /\ shouldShowMerchant = <<TRUE>>
  /\ Len(TransactionRecords(searchData)) = 2
  /\ \E t \in Range(TransactionRecords(searchData)) : "merchant" \in DOMAIN t /\ t.merchant = ""
  /\ \E t \in Range(TransactionRecords(searchData)) :
       /\ "merchant" \in DOMAIN t /\ t.merchant = "Coffee Shop"
       /\ "modifiedMerchant" \notin DOMAIN t
  /\ \E i \in 1..Len(searchData) : isReportEntry(searchData[i].key)

(***************************************************************************)
(* Query strings: sanitizeString, buildFilterString and getQueryHash.      *)
(***************************************************************************)
\* The largest number of constraints under one filter key.
MaxFilters == 2

SYNTAX_FILTER_KEYS ==
  << <<"a", "m", "o", "u", "n", "t">>,
     <<"d", "a", "t", "e">>,
     <<"c", "a", "t", "e", "g", "o", "r", "y">>,
     <<"t", "a", "g">>,
     <<"m", "e", "r", "c", "h", "a", "n", "t">>,
     <<"d", "e", "s", "c", "r", "i", "p", "t", "i", "o", "n">>,
     <<"r", "e", "p", "o", "r", "t", "I", "D">>,
     <<"f", "r", "o", "m">>,
     <<"t", "o">>,
     <<"i", "n">>,
     <<"c", "a", "r", "d", "I", "D">>,
     <<"t", "a", "x", "R", "a", "t", "e">>,
     <<"c", "u", "r", "r", "e", "n", "c", "y">>,
     <<"k", "e", "y", "w", "o", "r", "d">>,
     <<"e", "x", "p", "e", "n", "s", "e", "T", "y", "p", "e">> >>

SYNTAX_ROOT_KEYS ==
  << <<"t", "y", "p", "e">>,
     <<"s", "t", "a", "t", "u", "s">>,
     <<"p", "o", "l", "i", "c", "y", "I", "D">>,
     <<"s", "o", "r", "t", "B", "y">>,
     <<"s", "o", "r", "t", "O", "r", "d", "e", "r">> >>

KEY_AMOUNT == SYNTAX_FILTER_KEYS[1]

KEY_CATEGORY == SYNTAX_FILTER_KEYS[3]

KEY_TAG == SYNTAX_FILTER_KEYS[4]

KEY_KEYWORD == SYNTAX_FILTER_KEYS[14]

ROOT_TYPE == SYNTAX_ROOT_KEYS[1]

ROOT_STATUS == SYNTAX_ROOT_KEYS[2]

ROOT_POLICY_ID == SYNTAX_ROOT_KEYS[3]

ROOT_SORT_BY == SYNTAX_ROOT_KEYS[4]

ROOT_SORT_ORDER == SYNTAX_ROOT_KEYS[5]

operatorToSignMap ==
  [eq |-> <<":">>, lt |-> <<"<">>, lte |-> <<"<", "=">>, gt |-> <<">">>,
   gte |-> <<">", "=">>, neq |-> <<"!", "=">>, and |-> <<",">>, or |-> <<" ">>]

\* IsPlainChar with the double quote left out of the character class.
IsPlainCharWithoutQuote(c) ==
  \/ IsUpper(c) \/ IsLower(c) \/ IsDigit(c)
  \/ c \in {"_", "@", ".", "/", "#", "&", "+", "-", "bs", "'", ";", ","}

\* The characters that /[^A-Za-z0-9_@./#&+\-\\';,"]/ does not match.
IsPlainChar(c) ==
  \/ IsUpper(c) \/ IsLower(c) \/ IsDigit(c)
  \/ c \in {"_", "@", ".", "/", "#", "&", "+", "-", "bs", "'", ";", ",", "\""}

sanitizeString(str) ==
  IF \E i \in 1..Len(str) : ~IsPlainChar(str[i]) THEN <<"\"">> \o str \o <<"\"">>
  ELSE str

RECURSIVE FilterStringJoiningAll(_, _, _, _)
\* buildFilterString joining every constraint that has the operator of the
\* one before, whatever the operator.
FilterStringJoiningAll(filterName, queryFilters, index, filterValueString) ==
  IF index > Len(queryFilters) THEN filterValueString
  ELSE LET queryFilter == queryFilters[index]
           delimiter == IF filterName = KEY_KEYWORD THEN <<" ">> ELSE <<",">>
           value == sanitizeString(queryFilter.value)
           piece ==
             IF index # 1 /\ queryFilter.operator = queryFilters[index - 1].operator
             THEN delimiter \o value
             ELSE IF filterName = KEY_KEYWORD THEN delimiter \o value
             ELSE <<" ">> \o filterName \o operatorToSignMap[queryFilter.operator] \o value
       IN FilterStringJoiningAll(filterName, queryFilters, index + 1, filterValueString \o piece)

RECURSIVE FilterStringFrom(_, _, _, _)
\* The forEach of buildFilterString from index on (index counts from 1).
FilterStringFrom(filterName, queryFilters, index, filterValueString) ==
  IF index > Len(queryFilters) THEN filterValueString
  ELSE LET queryFilter == queryFilters[index]
           delimiter == IF filterName = KEY_KEYWORD THEN <<" ">> ELSE <<",">>
           value == sanitizeString(queryFilter.value)
           sameAsPrevious ==
             /\ index # 1
             /\ \/ queryFilter.operator = "eq" /\ queryFilters[index - 1].operator = "eq"
                \/ queryFilter.operator = "neq" /\ queryFilters[index - 1].operator = "neq"
           piece ==
             IF sameAsPrevious THEN delimiter \o value
             ELSE IF filterName = KEY_KEYWORD THEN delimiter \o value
             ELSE <<" ">> \o filterName \o operatorToSignMap[queryFilter.operator] \o value
       IN FilterStringFrom(filterName, queryFilters, index + 1, filterValueString \o piece)

buildFilterString(filterName, queryFilters) ==
  FilterStringFrom(filterName, queryFilters, 1, <<>>)

\* One step of the hash, h = (h * 65599 + code) mod 2^32, on the two 16-bit
\* halves <<high, low>> of h.
HashStep(h, c) ==
  LET raw == h[2] * 63 + CharCode[c]
  IN <<(h[2] + h[1] * 63 + (raw \div 65536)) % 65536, raw % 65536>>

\* The k-th of the n steps for the characters of text from i on, if any.
HashStepIf(h, text, i, n, k) ==
  IF n >= k THEN HashStep(h, text[i + k - 1]) ELSE h

\* The steps for the n characters of text from i on (n at most 8).
HashRun(text, i, n, h) ==
  HashStepIf(HashStepIf(HashStepIf(HashStepIf(HashStepIf(HashStepIf(HashStepIf(HashStepIf(
    h, text, i, n, 1), text, i, n, 2), text, i, n, 3), text, i, n, 4),
    text, i, n, 5), text, i, n, 6), text, i, n, 7), text, i, n, 8)

RECURSIVE HashFrom(_, _, _)
\* UserUtils.hashText(text, 2 ** 32) from character i on, eight characters
\* at a time.
HashFrom(text, i, h) ==
  IF i > Len(text) THEN h
  ELSE LET n == IF Len(text) - i + 1 < 8 THEN Len(text) - i + 1 ELSE 8
           next == HashRun(text, i, n, h)
       IN IF next[1] >= 0 THEN HashFrom(text, i + 8, next) ELSE next

hashText(text) == HashFrom(text, 1, <<0, 0>>)

\* The filters under a key of a QueryFilters object (entries in insertion
\* order); none when the key is absent.
FiltersOf(flatFilters, key) ==
  LET hits == SelectSeq(flatFilters, LAMBDA e : e.key = key)
  IN IF hits = <<>> THEN <<>> ELSE <<hits[1].filters>>

\* Object.keys(query.flatFilters).sort(): the default order of strings.
SortedKeys(flatFilters, eng) ==
  LET keys == [i \in 1..Len(flatFilters) |-> flatFilters[i].key]
  IN ArraySort(keys, [p \in Range(keys) \X Range(keys) |-> StrCompareFrom(p[1], p[2], 1)], eng)

\* The comparator given to filterValues.sort.
CompareFilterValues(queryFilter1, queryFilter2) ==
  IF StrGreater(queryFilter1.value, queryFilter2.value) THEN 1 ELSE -1

\* filterValues.sort(...): the array under the key, sorted in place.
SortFilterValues(filterValues, eng) ==
  ArraySort(filterValues,
            [p \in Range(filterValues) \X Range(filterValues) |-> CompareFilterValues(p[1], p[2])],
            eng)

\* query.flatFilters after getQueryHash: every array sorted in place.
FlatFiltersAfterHash(flatFilters, eng) ==
  [i \in 1..Len(flatFilters) |->
     [key |-> flatFilters[i].key, filters |-> SortFilterValues(flatFilters[i].filters, eng)]]

RECURSIVE OrderedFiltersFrom(_, _, _, _, _)
\* The forEach over the sorted keys.
OrderedFiltersFrom(flatFilters, keys, i, orderedQuery, eng) ==
  IF i > Len(keys) THEN orderedQuery
  ELSE LET filterValues == FiltersOf(flatFilters, keys[i])[1]
           sortedFilterValues == SortFilterValues(filterValues, eng)
       IN OrderedFiltersFrom(flatFilters, keys, i + 1,
            orderedQuery \o <<" ">> \o buildFilterString(keys[i], sortedFilterValues), eng)

\* The string that getQueryHash hashes.
OrderedQuery(query, eng) ==
  LET policy == IF "policyID" \in DOMAIN query /\ query.policyID # <<>>
                THEN ROOT_POLICY_ID \o <<":">> \o query.policyID \o <<" ">>
                ELSE <<>>
      roots == policy \o ROOT_TYPE \o <<":">> \o query.type
                 \o <<" ">> \o ROOT_STATUS \o <<":">> \o query.status
                 \o <<" ">> \o ROOT_SORT_BY \o <<":">> \o query.sortBy
                 \o <<" ">> \o ROOT_SORT_ORDER \o <<":">> \o query.sortOrder
  IN OrderedFiltersFrom(query.flatFilters, SortedKeys(query.flatFilters, eng), 1, roots, eng)

getQueryHash(query, eng) == hashText(OrderedQuery(query, eng))

\* The query object after getQueryHash(query).
QueryAfterHash(query, eng) ==
  [query EXCEPT !.flatFilters = FlatFiltersAfterHash(query.flatFilters, eng)]

S_expense == <<"e", "x", "p", "e", "n", "s", "e">>

S_all == <<"a", "l", "l">>

S_date == <<"d", "a", "t", "e">>

S_desc == <<"d", "e", "s", "c">>

D_JAN1 == <<"2", "0", "2", "4", "-", "0", "1", "-", "0", "1">>

D_JAN2 == <<"2", "0", "2", "4", "-", "0", "1", "-", "0", "2">>

D_JAN3 == <<"2", "0", "2", "4", "-", "0", "1", "-", "0", "3">>

QueryFilter(operator, value) == [operator |-> operator, value |-> value]

\* The sequences over a set of length at most n.
SeqsUpTo(S, n) == UNION {[1..k -> S] : k \in 0..n}

CategoryFilters == {QueryFilter(o, v) : o \in {"eq", "neq"}, v \in {<<"A">>, <<"B">>}}

AmountFilters == {QueryFilter(o, <<"1", "0", "0">>) : o \in {"gt", "lt"}}

\* The QueryFilters objects of the model: the keys in either insertion order.
FlatFilterSets ==
  LET entries(k, fs) == IF fs = <<>> THEN <<>> ELSE <<[key |-> k, filters |-> fs]>>
  IN UNION {{entries(KEY_CATEGORY, c) \o entries(KEY_AMOUNT, a),
             entries(KEY_AMOUNT, a) \o entries(KEY_CATEGORY, c)} :
            c \in SeqsUpTo(CategoryFilters, MaxFilters), a \in SeqsUpTo(AmountFilters, MaxFilters)}

\* The number of times x occurs in s.
Count(s, x) == Cardinality({i \in 1..Len(s) : s[i] = x})

SameMultiset(s, t) ==
  /\ Len(s) = Len(t)
  /\ \A i \in 1..Len(s) : Count(s, s[i]) = Count(t, s[i])

\* The same keys and, under each key, the same constraints in any order.
SameFilters(f, g) ==
  /\ {e.key : e \in Range(f)} = {e.key : e \in Range(g)}
  /\ \A e \in Range(f) : SameMultiset(e.filters, FiltersOf(g, e.key)[1])

SearchQuery(flatFilters) ==
  [type |-> S_expense, status |-> S_all, sortBy |-> S_date, sortOrder |-> S_desc,
   flatFilters |-> flatFilters]

InitHash ==
  /\ queryA \in {SearchQuery(f) : f \in FlatFilterSets}
  /\ queryB \in {SearchQuery(g) : g \in {g \in FlatFilterSets : SameFilters(queryA.flatFilters, g)}}
  /\ hashA = <<>>
  /\ hashB = <<>>

IdleHash ==
  /\ queryA = <<>>
  /\ queryB = <<>>
  /\ hashA = <<>>
  /\ hashB = <<>>

\* getQueryHash(queryA): returns the hash and leaves the arrays of the query
\* sorted.
GetQueryHashA ==
  /\ hashA = <<>>
  /\ hashA' = <<getQueryHash(queryA, engine)>>
  /\ queryA' = QueryAfterHash(queryA, engine)
  /\ UNCHANGED <<queryB, hashB, exceptHash>>

GetQueryHashB ==
  /\ hashB = <<>>
  /\ hashB' = <<getQueryHash(queryB, engine)>>
  /\ queryB' = QueryAfterHash(queryB, engine)
  /\ UNCHANGED <<queryA, hashA, exceptHash>>

NextHash == GetQueryHashA \/ GetQueryHashB

\* C1: two queries with the same root fields whose flatFilters hold the same
\* keys and, under each key, the same constraints in any order have the same
\* hash.
C1_HashIgnoresFilterOrder ==
  (hashA # <<>> /\ hashB # <<>>) => hashA = hashB

\* C12: a call of getQueryHash leaves the flatFilters of the query it is
\* given as they were: under every key the same constraints in the same
\* order.
C12_HashLeavesFlatFiltersAlone ==
  [][/\ queryA'.flatFilters = queryA.flatFilters
     /\ queryB'.flatFilters = queryB.flatFilters]_vars


(***************************************************************************)
(* The syntax tree of a query and its flattening: getFilters.              *)
(*                                                                         *)
(* A node is a record with the fields operator, left and right; a string   *)
(* in a tree is Str(s) and an array of strings is Arr(a).                  *)
(***************************************************************************)
\* The largest number of constraints in a tree.
MaxLeaves == 3

Arr(a) == [arr |-> a]

IsArray(v) == "arr" \in DOMAIN v

\* typeof v === 'object' && v && !Array.isArray(v)
IsNode(v) == "left" \in DOMAIN v

ASTNode(operator, left, right) == [operator |-> operator, left |-> left, right |-> right]

\* The entries pushed for an array on the right, with only its first element.
NodeFiltersFirstOnly(node) ==
  IF ~IsArray(node.right)
  THEN <<QueryFilter(node.operator, IF IsString(node.right) THEN node.right.str ELSE node.right)>>
  ELSE IF node.right.arr = <<>> THEN <<>>
  ELSE <<QueryFilter(node.operator, node.right.arr[1])>>

\* The entries that traverse pushes for a node whose left is a filter key.
NodeFilters(node) ==
  IF ~IsArray(node.right)
  THEN <<QueryFilter(node.operator, IF IsString(node.right) THEN node.right.str ELSE node.right)>>
  ELSE [i \in 1..Len(node.right.arr) |-> QueryFilter(node.operator, node.right.arr[i])]

\* filters[nodeKey] created when absent, then the entries pushed to it.
PushFilters(filters, nodeKey, entries) ==
  IF \E i \in 1..Len(filters) : filters[i].key = nodeKey
  THEN [i \in 1..Len(filters) |->
          IF filters[i].key = nodeKey
          THEN [key |-> nodeKey, filters |-> filters[i].filters \o entries]
          ELSE filters[i]]
  ELSE Append(filters, [key |-> nodeKey, filters |-> entries])

RECURSIVE traverse(_, _)
\* traverse(node) with the filters collected so far; gives them afterwards.
traverse(node, filters) ==
  IF "operator" \notin DOMAIN node THEN filters
  ELSE LET afterLeft == IF IsNode(node.left) THEN traverse(node.left, filters) ELSE filters
           afterRight == IF IsNode(node.right) THEN traverse(node.right, afterLeft) ELSE afterLeft
       IN IF ~IsString(node.left) \/ node.left.str \notin Range(SYNTAX_FILTER_KEYS) THEN afterRight
          ELSE PushFilters(afterRight, node.left.str, NodeFilters(node))

getFilters(queryJSON) ==
  IF "filters" \in DOMAIN queryJSON THEN traverse(queryJSON.filters, <<>>) ELSE <<>>

S_bogus == <<"b", "o", "g", "u", "s">>

\* The constraints of the model: a recognised or an unrecognised key on the
\* left, a string or an array of strings on the right.
LeafNodes ==
  {ASTNode(c[1], Str(k), c[2]) :
     k \in {KEY_CATEGORY, KEY_TAG, S_bogus},
     c \in {<<"eq", Str(<<"A">>)>>, <<"eq", Arr(<<<<"A">>, <<"B">>>>)>>, <<"neq", Str(<<"B">>)>>}}

RECURSIVE TreesOf(_)
\* The trees with n constraints, joined by and nodes in every shape.
TreesOf(n) ==
  IF n = 1 THEN LeafNodes
  ELSE UNION {{ASTNode("and", l, r) : l \in TreesOf(k), r \in TreesOf(n - k)} : k \in 1..(n - 1)}

InitFilters ==
  /\ ast \in {<<>>} \cup {<<t>> : t \in UNION {TreesOf(n) : n \in 1..MaxLeaves}}
  /\ flattened = <<>>

IdleFilters ==
  /\ ast = <<>>
  /\ flattened = <<>>

\* getFilters(queryJSON) for a query with the tree as its filters.
GetFilters ==
  /\ flattened = <<>>
  /\ flattened' = <<getFilters(IF ast = <<>> THEN [type |-> S_expense] ELSE [type |-> S_expense, filters |-> ast[1]])>>
  /\ UNCHANGED <<ast, exceptFilters>>

NextFilters == GetFilters

RECURSIVE ConstraintsOf(_)
\* The constraints of a tree from left to right.
ConstraintsOf(node) ==
  IF IsNode(node.left) THEN ConstraintsOf(node.left) \o ConstraintsOf(node.right)
  ELSE <<node>>

RECURSIVE ExpectedFrom(_, _, _)
\* One QueryFilter for each constraint on key with a string on the right and
\* one for each element of an array on the right, from constraint i on.
ExpectedFrom(constraints, key, i) ==
  IF i > Len(constraints) THEN <<>>
  ELSE LET c == constraints[i]
           own == IF c.left.str # key THEN <<>>
                  ELSE IF IsArray(c.right)
                       THEN [j \in 1..Len(c.right.arr) |-> [operator |-> c.operator, value |-> c.right.arr[j]]]
                       ELSE <<[operator |-> c.operator, value |-> c.right.str]>>
       IN own \o ExpectedFrom(constraints, key, i + 1)

\* C9: getFilters gives, under each recognised key, one QueryFilter for each
\* constraint on that key with a scalar on the right and one for each element
\* of an array on the right, in the order of the constraints from left to
\* right; a key that no constraint names and every unrecognised key is absent,
\* and without a tree the result is empty.
C9_GetFiltersFlattensExactly ==
  flattened # <<>> =>
    LET result == flattened[1]
        constraints == IF ast = <<>> THEN <<>> ELSE ConstraintsOf(ast[1])
    IN /\ \A i, j \in 1..Len(result) : result[i].key = result[j].key => i = j
       /\ \A i \in 1..Len(result) : result[i].key \in Range(SYNTAX_FILTER_KEYS)
       /\ \A k \in Range(SYNTAX_FILTER_KEYS) :
            LET expected == ExpectedFrom(constraints, k, 1)
            IN FiltersOf(result, k) = IF expected = <<>> THEN <<>> ELSE <<expected>>
       /\ ast = <<>> => result = <<>>

\* A tree with category:A,B after a constraint on an unrecognised key gives
\* the two entries eq A and eq B under category.
C9_Witness ==
  /\ flattened # <<>>
  /\ ast # <<>>
  /\ IsNode(ast[1].left)
  /\ ast[1].left = ASTNode("neq", Str(S_bogus), Str(<<"B">>))
  /\ ast[1].right = ASTNode("eq", Str(KEY_CATEGORY), Arr(<<<<"A">>, <<"B">>>>))
  /\ flattened[1] = <<[key |-> KEY_CATEGORY,
                       filters |-> <<QueryFilter("eq", <<"A">>), QueryFilter("eq", <<"B">>)>>]>>

(***************************************************************************)
(* The grammar of query strings: searchParser.parse.  Tokens are separated *)
(* by spaces; a token is key:value, key<value, key>value, key<=value,      *)
(* key>=value or key!=value with a comma-joined list of values, or a word  *)
(* of free text (a keyword).  A value in double quotes may hold any        *)
(* character but a double quote.                                           *)
(***************************************************************************)
\* The positions of the character sep in s that are outside double quotes.
SplitPoints(s, sep) ==
  LET quotes == {j \in 1..Len(s) : s[j] = "\""}
  IN {i \in 1..Len(s) : s[i] = sep /\ Cardinality({j \in quotes : j < i}) % 2 = 0}

\* The pieces of s between the split points, the empty ones included.
Pieces(s, sep) ==
  LET points == SplitPoints(s, sep)
      count == Cardinality(points)
      point(k) == IF k = 0 THEN 0
                  ELSE IF k > count THEN Len(s) + 1
                  ELSE CHOOSE x \in points : Cardinality({y \in points : y < x}) = k - 1
  IN [k \in 1..(count + 1) |-> SubSeq(s, point(k - 1) + 1, point(k) - 1)]

HasQuote(s) == \E i \in 1..Len(s) : s[i] = "\""

\* A value as written: in double quotes or without any; <<>> when malformed,
\* else <<value>>.
ParseValue(text) ==
  IF text = <<>> THEN <<>>
  ELSE IF text[1] = "\""
       THEN (IF Len(text) >= 2 /\ text[Len(text)] = "\"" /\ ~HasQuote(SubSeq(text, 2, Len(text) - 1))
             THEN <<SubSeq(text, 2, Len(text) - 1)>>
             ELSE <<>>)
       ELSE IF HasQuote(text) THEN <<>> ELSE <<text>>

\* Where the operator of a token starts: the first :, <, > or != of it.
OperatorStarts(token) ==
  {i \in 1..Len(token) :
     \/ token[i] \in {":", "<", ">"}
     \/ token[i] = "!" /\ i < Len(token) /\ token[i + 1] = "="}

\* The operator that starts at position i of a token, and its length.
OperatorAt(token, i) ==
  LET followedByEquals == i < Len(token) /\ token[i + 1] = "="
  IN IF token[i] = ":" THEN <<"eq", 1>>
     ELSE IF token[i] = "!" THEN <<"neq", 2>>
     ELSE IF token[i] = "<" THEN (IF followedByEquals THEN <<"lte", 2>> ELSE <<"lt", 1>>)
     ELSE (IF followedByEquals THEN <<"gte", 2>> ELSE <<"gt", 1>>)

\* Where the operator of a token starts, or 0 when it has none.
OperatorStart(token) ==
  IF OperatorStarts(token) = {} THEN 0
  ELSE CHOOSE i \in OperatorStarts(token) : \A j \in OperatorStarts(token) : i <= j

\* A word of free text: a constraint on the keyword key.
KeywordToken(word) ==
  IF word = <<>> THEN [kind |-> "error"]
  ELSE [kind |-> "filter", node |-> ASTNode("eq", Str(KEY_KEYWORD), Str(word[1]))]

\* A token key, operator, values: the value of a root key or a constraint.
KeyedToken(key, operator, values) ==
  IF \E i \in 1..Len(values) : values[i] = <<>> THEN [kind |-> "error"]
  ELSE IF key \in Range(SYNTAX_ROOT_KEYS)
       THEN (IF operator = "eq" /\ Len(values) = 1
             THEN [kind |-> "root", key |-> key, value |-> values[1][1]]
             ELSE [kind |-> "error"])
       ELSE [kind |-> "filter",
             node |-> ASTNode(operator, Str(key),
                              IF Len(values) = 1 THEN Str(values[1][1])
                              ELSE Arr([i \in 1..Len(values) |-> values[i][1]]))]

\* The values written in a comma-joined list.
ParseValues(text) ==
  [i \in 1..Len(Pieces(text, ",")) |-> ParseValue(Pieces(text, ",")[i])]

\* A token with its operator at position first, or without one (first = 0).
ParseTokenAt(token, first) ==
  IF \/ first = 0
     \/ token[1] = "\""
     \/ SubSeq(token, 1, first - 1) \notin Range(SYNTAX_ROOT_KEYS) \cup Range(SYNTAX_FILTER_KEYS)
  THEN KeywordToken(ParseValue(token))
  ELSE KeyedToken(SubSeq(token, 1, first - 1), OperatorAt(token, first)[1],
                  ParseValues(SubSeq(token, first + OperatorAt(token, first)[2], Len(token))))

\* One token: a root key with its value, a constraint node, or an error.
ParseToken(token) == ParseTokenAt(token, OperatorStart(token))

\* The value given last to a root key, or the default.
RootValue(given, default) ==
  IF given = <<>> THEN default ELSE given[Len(given)].value

RootValues(parsed, key) == SelectSeq(parsed, LAMBDA t : t.kind = "root" /\ t.key = key)

RECURSIVE JoinNodes(_, _)
\* The constraints joined by and nodes, the earlier ones deeper on the left.
JoinNodes(nodes, n) ==
  IF n = 1 THEN nodes[1].node
  ELSE ASTNode("and", JoinNodes(nodes, n - 1), nodes[n].node)

\* The filters of the parsed query, when it has any.
ParsedFilters(nodes) ==
  IF nodes = <<>> THEN <<>> ELSE [filters |-> JoinNodes(nodes, Len(nodes))]

\* The policyID of the parsed query, when it was given.
ParsedPolicy(given) ==
  IF given = <<>> THEN <<>> ELSE [policyID |-> given[Len(given)].value]

\* The result of the parser for the parsed tokens.
ParsedQuery(quotes, parsed) ==
  IF quotes % 2 = 1 THEN [threw |-> TRUE]
  ELSE IF \E i \in 1..Len(parsed) : parsed[i].kind = "error" THEN [threw |-> TRUE]
  ELSE [threw |-> FALSE,
        value |-> [type |-> RootValue(RootValues(parsed, ROOT_TYPE), S_expense),
                   status |-> RootValue(RootValues(parsed, ROOT_STATUS), S_all),
                   sortBy |-> RootValue(RootValues(parsed, ROOT_SORT_BY), S_date),
                   sortOrder |-> RootValue(RootValues(parsed, ROOT_SORT_ORDER), S_desc)]
                  @@ ParsedPolicy(RootValues(parsed, ROOT_POLICY_ID))
                  @@ ParsedFilters(SelectSeq(parsed, LAMBDA t : t.kind = "filter"))]

\* The tokens of a query string, parsed one by one.
ParseTokens(tokens) == [i \in 1..Len(tokens) |-> ParseToken(tokens[i])]

\* searchParser.parse(query): [threw |-> TRUE] for a malformed string, else
\* the parsed query with the defaults of the root keys.
searchParserParse(query) ==
  ParsedQuery(Cardinality({i \in 1..Len(query) : query[i] = "\""}),
              ParseTokens(SelectSeq(Pieces(query, " "), LAMBDA t : t # <<>>)))

(***************************************************************************)
(* buildSearchQueryJSON, buildSearchQueryString and normalizeQuery.        *)
(***************************************************************************)
\* The largest number of tokens in the text given.
MaxTokens == 2

\* The largest number of times the text is normalized.
MaxPasses == 2

\* The result with inputQuery and flatFilters added.
WithFilters(result, query, flatFilters) ==
  result @@ [inputQuery |-> query, flatFilters |-> flatFilters]

\* The result with its hash added, its arrays sorted by getQueryHash.
WithHash(result, eng) ==
  QueryAfterHash(result, eng) @@ [hash |-> getQueryHash(result, eng)]

\* buildSearchQueryJSON without its catch: the exception leaves the function.
JSONOfParsedUncaught(query, parsed, eng) ==
  IF parsed.threw THEN [kind |-> "thrown"]
  ELSE [kind |-> "query",
        query |-> WithHash(WithFilters(parsed.value, query, getFilters(parsed.value)), eng)]

\* The body of buildSearchQueryJSON after the parser: kind "undefined" when
\* it threw and the catch logged it, kind "query" with the result otherwise.
JSONOfParsed(query, parsed, eng) ==
  IF parsed.threw THEN [kind |-> "undefined"]
  ELSE [kind |-> "query",
        query |-> WithHash(WithFilters(parsed.value, query, getFilters(parsed.value)), eng)]

buildSearchQueryJSON(query, eng) == JSONOfParsed(query, searchParserParse(query), eng)

\* queryJSON?.[key] for a root key: <<>> when undefined, else <<value>>.
RootField(queryJSON, key) ==
  IF queryJSON.kind # "query" THEN <<>>
  ELSE LET q == queryJSON.query
       IN IF key = ROOT_TYPE THEN <<q.type>>
          ELSE IF key = ROOT_STATUS THEN <<q.status>>
          ELSE IF key = ROOT_SORT_BY THEN <<q.sortBy>>
          ELSE IF key = ROOT_SORT_ORDER THEN <<q.sortOrder>>
          ELSE IF "policyID" \in DOMAIN q THEN <<q.policyID>>
          ELSE <<>>

RECURSIVE RootPartsFrom(_, _, _, _)
\* The loop over the root keys.
RootPartsFrom(queryJSON, defaultQueryJSON, i, queryParts) ==
  IF i > Len(SYNTAX_ROOT_KEYS) THEN queryParts
  ELSE LET key == SYNTAX_ROOT_KEYS[i]
           existingFieldValue == RootField(queryJSON, key)
           queryFieldValue == IF existingFieldValue # <<>> THEN existingFieldValue
                              ELSE RootField(defaultQueryJSON, key)
       IN RootPartsFrom(queryJSON, defaultQueryJSON, i + 1,
            IF queryFieldValue # <<>> /\ queryFieldValue[1] # <<>>
            THEN Append(queryParts, key \o <<":">> \o queryFieldValue[1])
            ELSE queryParts)

RECURSIVE FilterPartsFrom(_, _, _)
\* The loop over the filter keys.
FilterPartsFrom(filters, i, queryParts) ==
  IF i > Len(SYNTAX_FILTER_KEYS) THEN queryParts
  ELSE LET filterKey == SYNTAX_FILTER_KEYS[i]
           queryFilter == FiltersOf(filters, filterKey)
       IN FilterPartsFrom(filters, i + 1,
            IF queryFilter # <<>> THEN Append(queryParts, buildFilterString(filterKey, queryFilter[1]))
            ELSE queryParts)

RECURSIVE JoinFrom(_, _, _)
\* parts.join(separator) from part i on.
JoinFrom(parts, separator, i) ==
  IF i > Len(parts) THEN <<>>
  ELSE (IF i = 1 THEN <<>> ELSE separator) \o parts[i] \o JoinFrom(parts, separator, i + 1)

\* The parts of the string joined: the root keys, then the filters.
QueryStringOf(queryJSON, rootParts) ==
  IF queryJSON.kind # "query" THEN JoinFrom(rootParts, <<" ">>, 1)
  ELSE JoinFrom(FilterPartsFrom(queryJSON.query.flatFilters, 1, rootParts), <<" ">>, 1)

buildSearchQueryString(queryJSON, eng) ==
  QueryStringOf(queryJSON, RootPartsFrom(queryJSON, buildSearchQueryJSON(<<>>, eng), 1, <<>>))

normalizeQuery(query, eng) ==
  buildSearchQueryString(buildSearchQueryJSON(query, eng), eng)

\* The tokens of the model: a root key, constraints (two of them on the same
\* value), a list, a value in quotes, free text and two malformed tokens.
TokenPool ==
  { <<"t", "y", "p", "e", ":", "t", "r", "i", "p">>,
    <<"a", "m", "o", "u", "n", "t", ">", "1", "0", "0">>,
    <<"a", "m", "o", "u", "n", "t", "<", "1", "0", "0">>,
    <<"c", "a", "t", "e", "g", "o", "r", "y", ":", "B", ",", "A">>,
    <<"c", "a", "t", "e", "g", "o", "r", "y", "!", "=", "A">>,
    <<"t", "a", "g", ":", "\"", "a", " ", "b", "\"">>,
    <<"f", "o", "o">>,
    <<"c", "a", "t", "e", "g", "o", "r", "y", ":">>,
    <<"\"", "o", "p", "e", "n">> }

SearchTexts == {JoinFrom(t, <<" ">>, 1) : t \in SeqsUpTo(TokenPool, MaxTokens)}

InitQuery ==
  /\ searchText \in SearchTexts
  /\ parsedQuery = [kind |-> "none"]
  /\ normalized = <<>>

IdleQuery ==
  /\ searchText = <<>>
  /\ parsedQuery = [kind |-> "none"]
  /\ normalized = <<>>

\* buildSearchQueryJSON(searchText).
BuildSearchQueryJSON ==
  /\ parsedQuery.kind = "none"
  /\ parsedQuery' = buildSearchQueryJSON(searchText, engine)
  /\ UNCHANGED <<searchText, normalized, exceptQuery>>

\* normalizeQuery applied to the text, or to what the last pass gave.
NormalizeQuery ==
  /\ Len(normalized) < MaxPasses
  /\ normalized' = Append(normalized,
                          normalizeQuery(IF normalized = <<>> THEN searchText
                                         ELSE normalized[Len(normalized)], engine))
  /\ UNCHANGED <<searchText, parsedQuery, exceptQuery>>

NextQuery == BuildSearchQueryJSON \/ NormalizeQuery

\* C2: for a text that parses, normalizing the normalized text gives it back.
C2_NormalizeIsFixedPoint ==
  (Len(normalized) >= 2 /\ ~searchParserParse(searchText).threw) => normalized[2] = normalized[1]

\* C3: buildSearchQueryJSON never throws; it gives undefined when the text
\* is malformed, and otherwise a query with the text as inputQuery and with
\* flatFilters and hash set.
C3_BuildJSONNeverThrows ==
  parsedQuery.kind # "none" =>
    /\ parsedQuery.kind # "thrown"
    /\ searchParserParse(searchText).threw => parsedQuery.kind = "undefined"
    /\ ~searchParserParse(searchText).threw =>
         /\ parsedQuery.kind = "query"
         /\ {"inputQuery", "flatFilters", "hash"} \subseteq DOMAIN parsedQuery.query
         /\ parsedQuery.query.inputQuery = searchText

\* A malformed text was given and undefined came back.
C3_Witness ==
  /\ searchText = <<"f", "o", "o", " ", "c", "a", "t", "e", "g", "o", "r", "y", ":">>
  /\ parsedQuery.kind = "undefined"

(***************************************************************************)
(* The form of the advanced filters: buildFilterFormValuesFromQuery.       *)
(*                                                                         *)
(* A form is a function from the names of its fields; a field set to       *)
(* undefined is there with the value UndefinedValue, a list is List(l) and *)
(* a string is Str(s).                                                     *)
(***************************************************************************)
\* The names of the filter keys, in the order of SYNTAX_FILTER_KEYS.
FILTER_KEY_NAMES ==
  <<"amount", "date", "category", "tag", "merchant", "description", "reportID", "from",
    "to", "in", "cardID", "taxRate", "currency", "keyword", "expenseType">>

KeyName(filterKey) ==
  FILTER_KEY_NAMES[CHOOSE i \in 1..Len(SYNTAX_FILTER_KEYS) : SYNTAX_FILTER_KEYS[i] = filterKey]

TRANSACTION_TYPE ==
  {<<"c", "a", "s", "h">>, <<"c", "a", "r", "d">>, <<"d", "i", "s", "t", "a", "n", "c", "e">>}

S_invoice == <<"i", "n", "v", "o", "i", "c", "e">>

S_trip == <<"t", "r", "i", "p">>

S_chat == <<"c", "h", "a", "t">>

S_paid == <<"p", "a", "i", "d">>

S_drafts == <<"d", "r", "a", "f", "t", "s">>

S_outstanding == <<"o", "u", "t", "s", "t", "a", "n", "d", "i", "n", "g">>

S_approved == <<"a", "p", "p", "r", "o", "v", "e", "d">>

S_current == <<"c", "u", "r", "r", "e", "n", "t">>

S_past == <<"p", "a", "s", "t">>

S_unread == <<"u", "n", "r", "e", "a", "d">>

\* The entries of CONST.SEARCH.DATA_TYPES.
DATA_TYPES ==
  <<[key |-> "EXPENSE", value |-> S_expense], [key |-> "INVOICE", value |-> S_invoice],
    [key |-> "TRIP", value |-> S_trip], [key |-> "CHAT", value |-> S_chat]>>

\* The entries of CONST.SEARCH.STATUS.
STATUS ==
  <<[key |-> "EXPENSE", value |-> {S_all, S_drafts, S_outstanding, S_approved, S_paid}],
    [key |-> "INVOICE", value |-> {S_all, S_outstanding, S_paid}],
    [key |-> "TRIP", value |-> {S_all, S_current, S_past}],
    [key |-> "CHAT", value |-> {S_all, S_unread}]>>

List(l) == [list |-> l]

UndefinedValue == [undefined |-> TRUE]

EmptyForm == [n \in {} |-> UndefinedValue]

\* filtersForm[field] = value
SetField(form, field, value) ==
  [n \in DOMAIN form \cup {field} |-> IF n = field THEN value ELSE form[n]]

\* PolicyUtils.getTagNamesFromTagsLists: the names of the tags of the lists.
getTagNamesFromTagsLists(policyTagLists) ==
  UNION {Range(policyTagLists[i]) : i \in 1..Len(policyTagLists)}

\* collection?.[`${prefix}${policyID}`] ?? {} : the entry of the policy.
OfPolicy(collection, policyID) ==
  IF \E i \in 1..Len(collection) : collection[i].policyID = policyID
  THEN (CHOOSE e \in Range(collection) : e.policyID = policyID).value
  ELSE <<>>

Truthy(field) == field # <<>> /\ field[1] # <<>>

PolicyIDOf(queryJSON) ==
  IF "policyID" \in DOMAIN queryJSON THEN <<queryJSON.policyID>> ELSE <<>>

\* The tag names of every policy, whatever the policy of the query.
TagNamesOfEveryPolicy(policyID, policyTags) ==
  UNION {getTagNamesFromTagsLists(policyTags[i].value) : i \in 1..Len(policyTags)}

\* const tags = policyID ? ... : ...
TagNames(policyID, policyTags) ==
  IF Truthy(policyID) THEN getTagNamesFromTagsLists(OfPolicy(policyTags, policyID[1]))
  ELSE UNION {getTagNamesFromTagsLists(policyTags[i].value) : i \in 1..Len(policyTags)}

\* const categories = policyID ? ... : ...
CategoryNames(policyID, policyCategories) ==
  IF Truthy(policyID) THEN Range(OfPolicy(policyCategories, policyID[1]))
  ELSE UNION {Range(policyCategories[i].value) : i \in 1..Len(policyCategories)}

\* [...Object.values(taxRates)].flat() : the tax rate ids of all the names.
TaxRateIDs(taxRates) == UNION {Range(taxRates[i].value) : i \in 1..Len(taxRates)}

\* The ids for which reports?.[`${ONYXKEYS.COLLECTION.REPORT}${id}`] is
\* truthy: the collection has an entry for the id and it is not null.
ReportIDs(reports) == {reports[i].reportID : i \in {j \in 1..Len(reports) : reports[j].value # <<>>}}

\* filters[filterKey]?.map((f) => f.value.toString())
ValuesOf(queryFilters) == [i \in 1..Len(queryFilters) |-> queryFilters[i].value]

\* values.filter((v) => allowed.includes(v)), and the key left out when
\* nothing is kept.
KeptOrAbsent(form, field, values, allowed) ==
  IF SelectSeq(values, LAMBDA v : v \in allowed) = <<>> THEN form
  ELSE SetField(form, field, List(SelectSeq(values, LAMBDA v : v \in allowed)))

\* filtersForm[field] = values.filter((v) => allowed.includes(v))
Kept(form, field, values, allowed) ==
  SetField(form, field, List(SelectSeq(values, LAMBDA v : v \in allowed)))

\* ValidationUtils.isValidDate: a date written yyyy-MM-dd.
isValidDate(date) ==
  /\ Len(date) = 10
  /\ \A i \in {1, 2, 3, 4, 6, 7, 9, 10} : IsDigit(date[i])
  /\ date[5] = "-" /\ date[8] = "-"

\* MoneyRequestUtils.validateAmount(amount, 2): digits, then at most a point
\* and two digits.
validateAmount(amount) ==
  LET points == {i \in 1..Len(amount) : amount[i] = "."}
  IN /\ amount # <<>>
     /\ \A i \in 1..Len(amount) : IsDigit(amount[i]) \/ amount[i] = "."
     /\ Cardinality(points) <= 1
     /\ \A i \in points : i > 1 /\ Len(amount) - i <= 2

\* The value of the last constraint with the operator that is valid.
LastValid(queryFilters, operator, isDate) ==
  LET found == SelectSeq(queryFilters,
                 LAMBDA f : f.operator = operator
                            /\ IF isDate THEN isValidDate(f.value) ELSE validateAmount(f.value))
  IN IF found = <<>> THEN UndefinedValue ELSE Str(found[Len(found)].value)

\* filters.find((f) => f.operator === operator && valid(f.value))?.value
FirstValid(queryFilters, operator, isDate) ==
  LET found == SelectSeq(queryFilters,
                 LAMBDA f : f.operator = operator
                            /\ IF isDate THEN isValidDate(f.value) ELSE validateAmount(f.value))
  IN IF found = <<>> THEN UndefinedValue ELSE Str(found[1].value)

\* The keyword field: the values, those with a space in quotes, joined by ' '.
KeywordValue(values) ==
  JoinFrom([i \in 1..Len(values) |->
              IF " " \in Range(values[i]) THEN <<"\"">> \o values[i] \o <<"\"">> ELSE values[i]],
           <<" ">>, 1)

\* The body of the loop for one filter key.
FormWithKey(form, name, queryFilters, policyID, refs) ==
  IF name \in {"reportID", "merchant", "description"}
  THEN SetField(form, name, IF queryFilters = <<>> THEN UndefinedValue ELSE Str(queryFilters[1].value))
  ELSE IF name = "expenseType" THEN Kept(form, name, ValuesOf(queryFilters), TRANSACTION_TYPE)
  ELSE IF name = "cardID" THEN Kept(form, name, ValuesOf(queryFilters), refs.cardList)
  ELSE IF name = "taxRate" THEN Kept(form, name, ValuesOf(queryFilters), TaxRateIDs(refs.taxRates))
  ELSE IF name = "in" THEN Kept(form, name, ValuesOf(queryFilters), ReportIDs(refs.reports))
  ELSE IF name \in {"from", "to"} THEN Kept(form, name, ValuesOf(queryFilters), refs.personalDetails)
  ELSE IF name = "currency" THEN Kept(form, name, ValuesOf(queryFilters), refs.currencyList)
  ELSE IF name = "tag" THEN Kept(form, name, ValuesOf(queryFilters), TagNames(policyID, refs.policyTags))
  ELSE IF name = "category"
  THEN Kept(form, name, ValuesOf(queryFilters), CategoryNames(policyID, refs.policyCategories))
  ELSE IF name = "keyword" THEN SetField(form, name, Str(KeywordValue(ValuesOf(queryFilters))))
  ELSE IF name = "date"
  THEN SetField(SetField(form, "dateBefore", FirstValid(queryFilters, "lt", TRUE)),
                "dateAfter", FirstValid(queryFilters, "gt", TRUE))
  ELSE SetField(SetField(form, "lessThan", FirstValid(queryFilters, "lt", FALSE)),
                "greaterThan", FirstValid(queryFilters, "gt", FALSE))

RECURSIVE FormFrom(_, _, _, _, _)
\* The loop over the keys of flatFilters, from key i on.
FormFrom(filters, i, form, policyID, refs) ==
  IF i > Len(filters) THEN form
  ELSE FormFrom(filters, i + 1,
                FormWithKey(form, KeyName(filters[i].key), filters[i].filters, policyID, refs),
                policyID, refs)

\* Object.entries(entries).find(...): the key of the first entry found, or none.
KeyOfFirst(found) == IF found = <<>> THEN <<>> ELSE <<found[1].key>>

\* filtersForm.type and filtersForm.status.
WithTypeAndStatus(form, queryJSON, typeKey, statusKey) ==
  SetField(SetField(form, "type", Str(IF typeKey # <<>> THEN queryJSON.type ELSE S_expense)),
           "status",
           Str(IF (IF typeKey = <<>> THEN <<"">> ELSE typeKey) = statusKey
               THEN queryJSON.status ELSE S_all))

\* filtersForm.policyID, when the query has one.
WithPolicyID(form, policyID) ==
  IF Truthy(policyID) THEN SetField(form, "policyID", Str(policyID[1])) ELSE form

buildFilterFormValuesFromQuery(queryJSON, refs) ==
  WithPolicyID(
    WithTypeAndStatus(
      FormFrom(queryJSON.flatFilters, 1, EmptyForm, PolicyIDOf(queryJSON), refs),
      queryJSON,
      KeyOfFirst(SelectSeq(DATA_TYPES, LAMBDA e : e.value = queryJSON.type)),
      KeyOfFirst(SelectSeq(STATUS, LAMBDA e : queryJSON.status \in e.value))),
    PolicyIDOf(queryJSON))

S_Engineering == <<"E", "n", "g", "i", "n", "e", "e", "r", "i", "n", "g">>

S_Sales == <<"S", "a", "l", "e", "s">>

S_Legal == <<"L", "e", "g", "a", "l">>

S_Travel == <<"T", "r", "a", "v", "e", "l">>

S_Meals == <<"M", "e", "a", "l", "s">>

S_P1 == <<"P", "1">>

S_P2 == <<"P", "2">>

S_P9 == <<"P", "9">>

S_USD == <<"U", "S", "D">>

S_EUR == <<"E", "U", "R">>

S_XXX == <<"X", "X", "X">>

\* The reference collections of the model: two policies with their tag
\* lists and categories, the keys of the currency list, of the personal
\* details and of the card list, the reports (the report 9 is null in the
\* collection) and the tax rates by name.
ReferenceData ==
  [policyTags |-> <<[policyID |-> S_P1, value |-> << <<S_Sales>> >>],
                    [policyID |-> S_P2, value |-> << <<S_Engineering>>, <<S_Sales>> >>]>>,
   policyCategories |-> <<[policyID |-> S_P1, value |-> <<S_Travel>>],
                          [policyID |-> S_P2, value |-> <<S_Meals>>]>>,
   currencyList |-> {S_USD, S_EUR},
   personalDetails |-> {<<"1">>, <<"2">>},
   cardList |-> {<<"1">>, <<"2">>},
   reports |-> <<[reportID |-> <<"1">>, value |-> <<[reportID |-> <<"1">>]>>],
                 [reportID |-> <<"2">>, value |-> <<[reportID |-> <<"2">>]>>],
                 [reportID |-> <<"9">>, value |-> <<>>]>>,
   taxRates |-> <<[name |-> <<"V", "A", "T">>, value |-> << <<"1">> >>],
                  [name |-> <<"G", "S", "T">>, value |-> << <<"2">>, <<"1">> >>]>>]

\* The key of SYNTAX_FILTER_KEYS with the name.
KeyNamed(name) ==
  SYNTAX_FILTER_KEYS[CHOOSE i \in 1..Len(FILTER_KEY_NAMES) : FILTER_KEY_NAMES[i] = name]

\* A query without policy, of type expense and status all, with the filters.
QueryWith(flatFilters) ==
  [type |-> S_expense, status |-> S_all, sortBy |-> S_date, sortOrder |-> S_desc,
   flatFilters |-> flatFilters]

\* Tag and category filters, with or without a policy (P9 is a policy
\* without reference data) and three pairs of type and status.
TagAndCategoryQueries ==
  LET entries(k, fs) == IF fs = <<>> THEN <<>> ELSE <<[key |-> k, filters |-> fs]>>
      tagFilters == {QueryFilter("eq", v) : v \in {S_Engineering, S_Sales, S_Legal}}
      categoryFilters == {QueryFilter("eq", v) : v \in {S_Travel, S_Meals}}
  IN {[type |-> ts[1], status |-> ts[2], sortBy |-> S_date, sortOrder |-> S_desc,
       flatFilters |-> entries(KEY_TAG, t) \o entries(KEY_CATEGORY, c)] @@ policy :
        ts \in {<<S_expense, S_all>>, <<S_invoice, S_paid>>, <<S_trip, S_current>>},
        t \in SeqsUpTo(tagFilters, MaxFilters),
        c \in SeqsUpTo(categoryFilters, 1),
        policy \in {<<>>} \cup {[policyID |-> id] : id \in {S_P1, S_P2, S_P9}}}

\* The names of the keys whose values are looked up in a collection other
\* than those of a policy.
LookupKeyNames == {"currency", "cardID", "taxRate", "in", "from", "to"}

\* The values of a filter on the key: two that are in the collection and one
\* that is not (the report 9 is in the collection as null).
LookupValues(name) ==
  IF name = "currency" THEN {S_USD, S_EUR, S_XXX} ELSE {<<"1">>, <<"2">>, <<"9">>}

\* One filter key looked up in a collection, with up to MaxFilters values.
LookupQueries ==
  {QueryWith(<<[key |-> KeyNamed(name), filters |-> fs]>>) :
     name \in LookupKeyNames,
     fs \in UNION {SeqsUpTo({QueryFilter("eq", v) : v \in LookupValues(n)}, MaxFilters) \ {<<>>} :
                    n \in LookupKeyNames}}

S_notADate == <<"s", "o", "o", "n">>

S_notAnAmount == <<"1", ".", "2", "3", "4">>

\* The constraints on the date and on the amount: lt, gt and eq with two
\* values that are valid and one that is not.
RangeFilters(name) ==
  {QueryFilter(o, v) : o \in {"lt", "gt", "eq"},
                       v \in IF name = "date" THEN {D_JAN1, D_JAN2, S_notADate}
                             ELSE {<<"5">>, <<"7", ".", "5">>, S_notAnAmount}}

\* The date or the amount with up to MaxFilters constraints.
RangeQueries ==
  UNION {{QueryWith(<<[key |-> KeyNamed(name), filters |-> fs]>>) :
            fs \in SeqsUpTo(RangeFilters(name), MaxFilters) \ {<<>>}} : name \in {"date", "amount"}}

\* Every pair of a type and a status, known or not.
TypeAndStatusQueries ==
  {[QueryWith(<<>>) EXCEPT !.type = t, !.status = s] :
     t \in {DATA_TYPES[i].value : i \in 1..Len(DATA_TYPES)} \cup {S_bogus},
     s \in UNION {STATUS[i].value : i \in 1..Len(STATUS)} \cup {S_bogus}}

\* The queries of the model.
FormQueries == TagAndCategoryQueries \cup LookupQueries \cup RangeQueries \cup TypeAndStatusQueries

InitForm ==
  /\ formQuery \in FormQueries
  /\ references = ReferenceData
  /\ filtersForm = <<>>

IdleForm ==
  /\ formQuery = <<>>
  /\ references = <<>>
  /\ filtersForm = <<>>

\* buildFilterFormValuesFromQuery(formQuery, ...references).
BuildFilterFormValuesFromQuery ==
  /\ filtersForm = <<>>
  /\ filtersForm' = <<buildFilterFormValuesFromQuery(formQuery, references)>>
  /\ UNCHANGED <<formQuery, references, exceptForm>>

NextForm == BuildFilterFormValuesFromQuery

\* The query has a policy and a tag filter, and none of the values of the
\* filter is a tag name of that policy.
NoTagOfPolicyResolves ==
  /\ filtersForm # <<>>
  /\ Truthy(PolicyIDOf(formQuery))
  /\ FiltersOf(formQuery.flatFilters, KEY_TAG) # <<>>
  /\ \A f \in Range(FiltersOf(formQuery.flatFilters, KEY_TAG)[1]) :
       f.value \notin getTagNamesFromTagsLists(OfPolicy(references.policyTags, formQuery.policyID))

\* C8 as stated: when no value of the tag filter is a tag name of the policy
\* of the query, the form has no tag field.
C8_TagAbsentFromForm ==
  NoTagOfPolicyResolves => "tag" \notin DOMAIN filtersForm[1]

\* C8 as amended: when no value of the tag filter is a tag name of the policy
\* of the query, the form has the tag field with the empty list.
C8_TagIsEmptyList ==
  NoTagOfPolicyResolves =>
    /\ "tag" \in DOMAIN filtersForm[1]
    /\ filtersForm[1].tag = List(<<>>)

\* tag:Engineering with the policy P1, whose tag names do not hold it.
C8_Witness ==
  /\ NoTagOfPolicyResolves
  /\ formQuery.policyID = S_P1
  /\ FiltersOf(formQuery.flatFilters, KEY_TAG) = <<<<QueryFilter("eq", S_Engineering)>>>>
  /\ filtersForm[1].tag = List(<<>>)

\* The fields of the form whose values are looked up in a collection.
LookupFieldNames == {"category", "tag"} \cup LookupKeyNames

\* The entries of a collection of policies that count for the query: the
\* entry of its policy when it has one, else all of them.
ScopedTo(query, collection) ==
  {e \in Range(collection) : "policyID" \in DOMAIN query => e.policyID = query.policyID}

\* The value is found in the reference collection of the field.
ResolvesIn(name, value, query, refs) ==
  IF name = "tag"
  THEN \E e \in ScopedTo(query, refs.policyTags) : \E l \in Range(e.value) : value \in Range(l)
  ELSE IF name = "category"
  THEN \E e \in ScopedTo(query, refs.policyCategories) : value \in Range(e.value)
  ELSE IF name = "currency" THEN value \in refs.currencyList
  ELSE IF name = "cardID" THEN value \in refs.cardList
  ELSE IF name = "taxRate" THEN \E t \in Range(refs.taxRates) : value \in Range(t.value)
  ELSE IF name = "in" THEN \E r \in Range(refs.reports) : r.reportID = value /\ r.value # <<>>
  ELSE value \in refs.personalDetails

\* The values of the query for the field, in the order of the query.
QueryValues(query, name) ==
  IF FiltersOf(query.flatFilters, KeyNamed(name)) = <<>> THEN <<>>
  ELSE ValuesOf(FiltersOf(query.flatFilters, KeyNamed(name))[1])

\* The values the form lists under the field, none when it has no such field.
ListedUnder(form, name) == IF name \in DOMAIN form THEN form[name].list ELSE <<>>

\* C21: in the form built from a query, every value listed under category,
\* tag, currency, cardID, taxRate, in, from or to is found in the reference
\* collection of the field (tags and categories in those of the policy of
\* the query when it has one, else in those of all policies), and the values
\* listed are the values of the query that are found there, in the order of
\* the query: the others are dropped.
C21_ListedValuesResolve ==
  filtersForm # <<>> =>
    \A name \in LookupFieldNames :
      /\ name \in DOMAIN filtersForm[1] => "list" \in DOMAIN filtersForm[1][name]
      /\ \A v \in Range(ListedUnder(filtersForm[1], name)) :
           ResolvesIn(name, v, formQuery, references)
      /\ ListedUnder(filtersForm[1], name)
           = SelectSeq(QueryValues(formQuery, name),
                       LAMBDA v : ResolvesIn(name, v, formQuery, references))

\* in:9,1 where the report 9 is null in the collection: the form lists 1.
C21_Witness ==
  /\ filtersForm # <<>>
  /\ QueryValues(formQuery, "in") = << <<"9">>, <<"1">> >>
  /\ filtersForm[1]["in"] = List(<< <<"1">> >>)

\* tag:Sales,Engineering with the policy P1, which has the tag Sales alone.
C21_WitnessPolicy ==
  /\ filtersForm # <<>>
  /\ "policyID" \in DOMAIN formQuery /\ formQuery.policyID = S_P1
  /\ QueryValues(formQuery, "tag") = <<S_Sales, S_Engineering>>
  /\ filtersForm[1].tag = List(<<S_Sales>>)

\* currency:EUR,USD is listed in the order of the query.
C21_WitnessOrder ==
  /\ filtersForm # <<>>
  /\ QueryValues(formQuery, "currency") = <<S_EUR, S_USD>>
  /\ filtersForm[1].currency = List(<<S_EUR, S_USD>>)

\* The type is one of CONST.SEARCH.DATA_TYPES.
IsKnownType(type) == \E e \in Range(DATA_TYPES) : e.value = type

\* The statuses CONST.SEARCH.STATUS defines for the type, none for a type
\* that is not known.
StatusesOfType(type) ==
  UNION {s.value : s \in {s \in Range(STATUS) :
                            \E e \in Range(DATA_TYPES) : e.value = type /\ e.key = s.key}}

\* C23: the form has the type of the query when it is a known data type,
\* else expense, and the status of the query when it is one of the statuses
\* defined for the type of the query, else all.
C23_TypeAndStatusOfQueryKept ==
  filtersForm # <<>> =>
    /\ filtersForm[1].type
         = Str(IF IsKnownType(formQuery.type) THEN formQuery.type ELSE S_expense)
    /\ filtersForm[1].status
         = Str(IF formQuery.status \in StatusesOfType(formQuery.type)
               THEN formQuery.status ELSE S_all)

\* The constraints of the query on the key with the operator, in the order
\* of flatFilters.
ConstraintsWith(query, name, operator) ==
  IF FiltersOf(query.flatFilters, KeyNamed(name)) = <<>> THEN <<>>
  ELSE SelectSeq(FiltersOf(query.flatFilters, KeyNamed(name))[1], LAMBDA f : f.operator = operator)

\* The value of the first of the constraints, undefined when there is none.
ValueOfFirst(constraints) ==
  IF constraints = <<>> THEN UndefinedValue ELSE Str(constraints[1].value)

\* The value is a date for the date key and an amount for the amount key.
IsValidFor(name, value) == IF name = "date" THEN isValidDate(value) ELSE validateAmount(value)

\* The fields of the form for the constraints lt and gt of the key.
SlotOf(name, operator) ==
  IF name = "date" THEN (IF operator = "lt" THEN "dateBefore" ELSE "dateAfter")
  ELSE (IF operator = "lt" THEN "lessThan" ELSE "greaterThan")

\* The date or the amount is a key of the flatFilters of the query.
HasRangeKey(name) ==
  filtersForm # <<>> /\ FiltersOf(formQuery.flatFilters, KeyNamed(name)) # <<>>

\* C24 as stated: for the date and the amount, dateBefore / lessThan has the
\* value of the first lt constraint of the key and dateAfter / greaterThan
\* the value of the first gt constraint, in the order of flatFilters.
C24_FirstConstraintFillsSlot ==
  \A name \in {"date", "amount"} : \A operator \in {"lt", "gt"} :
    HasRangeKey(name) =>
      filtersForm[1][SlotOf(name, operator)]
        = ValueOfFirst(ConstraintsWith(formQuery, name, operator))

\* C24 as amended: the slot has the value of the first lt (gt) constraint
\* of the key whose value is a valid date (a valid amount), and is
\* undefined when the key has no such constraint; later constraints with
\* the same operator never replace it.
C24_FirstValidConstraintFillsSlot ==
  \A name \in {"date", "amount"} : \A operator \in {"lt", "gt"} :
    HasRangeKey(name) =>
      filtersForm[1][SlotOf(name, operator)]
        = ValueOfFirst(SelectSeq(ConstraintsWith(formQuery, name, operator),
                                 LAMBDA f : IsValidFor(name, f.value)))

\* date<2024-01-02 date<2024-01-01: dateBefore is the first of the two.
C24_Witness ==
  /\ HasRangeKey("date")
  /\ ConstraintsWith(formQuery, "date", "lt") = <<QueryFilter("lt", D_JAN2), QueryFilter("lt", D_JAN1)>>
  /\ filtersForm[1].dateBefore = Str(D_JAN2)

\* amount>1.234 amount>5: the first is not an amount, greaterThan is 5.
C24_WitnessInvalidFirst ==
  /\ HasRangeKey("amount")
  /\ ConstraintsWith(formQuery, "amount", "gt")
       = <<QueryFilter("gt", S_notAnAmount), QueryFilter("gt", <<"5">>)>>
  /\ filtersForm[1].greaterThan = Str(<<"5">>)

(***************************************************************************)
(* The hook usePreserveReimbursementAccountDraft.                          *)
(*                                                                         *)
(* null is <<>> and a value v that may be null is <<v>>; a draft is the    *)
(* set of the names of its fields.  A render runs the body of the hook and *)
(* then its effects in the order of their declaration, the cleanup of an   *)
(* effect whose dependencies changed before the effects.                   *)
(***************************************************************************)
\* The largest number of drafts a connection has still to be called with.
MaxPending == 1

BANK_ACCOUNT == "BankAccountStep"

COMPANY == "CompanyStep"

REQUESTOR == "RequestorStep"

VALIDATION == "ValidationStep"

Steps == {BANK_ACCOUNT, COMPANY, VALIDATION}

\* getFieldsForStep(step): the names of the fields of the form of a step.
getFieldsForStep(step) ==
  IF step = BANK_ACCOUNT THEN {"accountNumber"}
  ELSE IF step = COMPANY THEN {"companyName"}
  ELSE IF step = REQUESTOR THEN {"firstName"}
  ELSE {}

DraftFields == {"accountNumber", "companyName"}

\* The values a field of the draft may have.
FieldValues == [accountNumber |-> {"1111", "2222"}, companyName |-> {"Acme"}]

\* The objects over some of the fields.
Forms == UNION {{f \in [fields -> UNION {FieldValues[k] : k \in DraftFields}] :
                   \A k \in fields : f[k] \in FieldValues[k]} : fields \in SUBSET DraftFields}

\* The stored draft: null (<<>>) or an object, which may be empty.
Drafts == {<<>>} \cup {<<f>> : f \in Forms}

\* lodashPick(object, fields)
lodashPick(object, fields) == [k \in DOMAIN object \cap fields |-> object[k]]

Accounts == {<<>>, <<[isLoading |-> TRUE]>>, <<[isLoading |-> FALSE]>>}

\* !draft || isEmptyObject(draft)
IsEmptyDraft(draft) == draft = <<>> \/ DOMAIN draft[1] = {}

\* reimbursementAccount?.isLoading: <<>> when undefined.
IsLoadingOf(account) == IF account = <<>> THEN <<>> ELSE <<account[1].isLoading>>

\* The values a render sees.
Props ==
  [isOffline |-> isOffline, account |-> reimbursementAccount,
   draft |-> reimbursementAccountDraft, step |-> currentStep]

\* usePrevious: the values of the render before.
PreviousOf(values) ==
  [isOffline |-> values.isOffline, account |-> values.account, step |-> values.step]

\* The refs of the hook and the connections of Onyx, as one value that the
\* effects of a render change in turn.
HookState ==
  [preserved |-> preservedDraftRef, connection |-> connectionRef,
   cleanup |-> hasCleanup, active |-> connections]

\* disconnectConnection()
disconnectConnection(h) ==
  IF h.connection # <<>>
  THEN [h EXCEPT !.active = [id \in DOMAIN h.active \ {h.connection[1]} |-> h.active[id]],
                 !.connection = <<>>]
  ELSE h

\* The preserved draft left as it is.
clearPreservedDraftSkipped(h) == h

\* clearPreservedDraft()
clearPreservedDraft(h) == [h EXCEPT !.preserved = <<>>]

\* Onyx.connectWithoutView: the connection gets the first identifier that is
\* free and is called with the stored draft.
Connect(h, step, isLoading, draft) ==
  LET id == CHOOSE n \in 1..(Cardinality(DOMAIN h.active) + 1) : n \notin DOMAIN h.active
  IN [h EXCEPT !.active = [i \in DOMAIN h.active \cup {id} |->
                             IF i = id THEN [step |-> step, isLoading |-> isLoading, pending |-> <<draft>>]
                             ELSE h.active[i]],
               !.connection = <<id>>,
               !.cleanup = TRUE]

\* The body of the connection effect.
ConnectionEffect(h, values) ==
  IF h.preserved = <<>> THEN [h EXCEPT !.cleanup = FALSE]
  ELSE Connect(h, values.step, IsLoadingOf(values.account), values.draft)

\* The connection effect re-run without the cleanup of its last run.
ConnectionCleanupSkipped(h) == h

\* The cleanup that the last run of the connection effect left, if any.
ConnectionCleanup(h) == IF h.cleanup THEN disconnectConnection(h) ELSE h

\* The connection effect in a render: it runs when currentStep or
\* reimbursementAccount?.isLoading changed.
RunConnectionEffect(h, values, last) ==
  IF values.step # last.step \/ IsLoadingOf(values.account) # IsLoadingOf(last.account)
  THEN ConnectionEffect(ConnectionCleanup(h), values)
  ELSE h

\* The preserve effect without lodashPick: the whole draft is kept.
PreserveEffectWholeDraft(h, values, prev) ==
  IF ~prev.isOffline \/ values.isOffline \/ prev.account = <<>> THEN h
  ELSE IF IsEmptyDraft(values.draft) \/ values.step = "" THEN h
  ELSE IF values.step \notin {BANK_ACCOUNT, COMPANY, REQUESTOR} THEN h
  ELSE IF getFieldsForStep(values.step) = {} THEN h
  ELSE [h EXCEPT !.preserved = <<[data |-> values.draft[1], step |-> values.step]>>]

\* The body of the preserve effect.
PreserveEffect(h, values, prev) ==
  IF ~prev.isOffline \/ values.isOffline \/ prev.account = <<>> THEN h
  ELSE IF IsEmptyDraft(values.draft) \/ values.step = "" THEN h
  ELSE IF values.step \notin {BANK_ACCOUNT, COMPANY, REQUESTOR} THEN h
  ELSE IF getFieldsForStep(values.step) = {} THEN h
  ELSE IF DOMAIN lodashPick(values.draft[1], getFieldsForStep(values.step)) = {} THEN h
  ELSE [h EXCEPT !.preserved = <<[data |-> lodashPick(values.draft[1], getFieldsForStep(values.step)),
                                  step |-> values.step]>>]

\* The preserve effect in a render: it runs when one of prevIsOffline,
\* isOffline, reimbursementAccountDraft, currentStep, prevReimbursementAccount
\* changed.
RunPreserveEffect(h, values, last, beforeLast) ==
  IF \/ last.isOffline # beforeLast.isOffline
     \/ values.isOffline # last.isOffline
     \/ values.draft # last.draft
     \/ values.step # last.step
     \/ last.account # beforeLast.account
  THEN PreserveEffect(h, values, PreviousOf(last))
  ELSE h

\* The step effect without its clearing.
StepEffectKeeps(h, values, prev) == h

\* The body of the effect that clears the preserved draft on a step change.
StepEffect(h, values, prev) ==
  IF prev.step # "" /\ prev.step # values.step /\ h.preserved # <<>> THEN clearPreservedDraft(h)
  ELSE h

\* That effect in a render: it runs when prevCurrentStep or currentStep changed.
RunStepEffect(h, values, last, beforeLast) ==
  IF last.step # beforeLast.step \/ values.step # last.step
  THEN StepEffect(h, values, PreviousOf(last))
  ELSE h

\* The effects of one render, in the order of their declaration.
RenderEffects(h, values, last, beforeLast) ==
  RunStepEffect(RunPreserveEffect(RunConnectionEffect(h, values, last), values, last, beforeLast),
                values, last, beforeLast)

\* The cleanups at unmount: that of the connection effect, then that of the
\* last effect.
UnmountCleanups(h) ==
  [clearPreservedDraft(disconnectConnection(ConnectionCleanup(h))) EXCEPT !.cleanup = FALSE]

\* Onyx.merge(draft, data)
MergeDraft(draft, fields) == IF draft = <<>> THEN <<fields>> ELSE <<fields @@ draft[1]>>

\* The condition of the callback without its test of the draft.
RestoresWhateverTheDraft(connection, draft, preserved) ==
  /\ preserved # <<>>
  /\ preserved[1].step = connection.step
  /\ connection.isLoading = <<FALSE>>

\* The callback of a connection, called with a draft: whether it restores.
Restores(connection, draft, preserved) ==
  /\ IsEmptyDraft(draft)
  /\ preserved # <<>>
  /\ preserved[1].step = connection.step
  /\ connection.isLoading = <<FALSE>>

\* Every active connection is to be called with the new draft.
Notified(active, draft) ==
  [id \in DOMAIN active |-> [active[id] EXCEPT !.pending = Append(@, draft)]]

\* The connection id with the first of its pending drafts taken.
Taken(active, id) ==
  [active EXCEPT ![id].pending = Tail(@)]

EmptyConnections == [id \in {} |-> <<>>]

\* The hook is mounted: the first render has run, where usePrevious gives the
\* values of the render itself and no effect finds anything to do.
InitHook ==
  /\ isOffline \in BOOLEAN
  /\ reimbursementAccount \in Accounts
  /\ reimbursementAccountDraft \in Drafts
  /\ currentStep \in Steps
  /\ mounted = TRUE
  /\ rendered = Props
  /\ previous = PreviousOf(Props)
  /\ preservedDraftRef = <<>>
  /\ connectionRef = <<>>
  /\ hasCleanup = FALSE
  /\ connections = EmptyConnections

IdleHook ==
  /\ isOffline = FALSE
  /\ reimbursementAccount = <<>>
  /\ reimbursementAccountDraft = <<>>
  /\ currentStep = ""
  /\ mounted = FALSE
  /\ rendered = <<>>
  /\ previous = <<>>
  /\ preservedDraftRef = <<>>
  /\ connectionRef = <<>>
  /\ hasCleanup = FALSE
  /\ connections = EmptyConnections

\* The network goes down or comes back.
NetworkChanges ==
  /\ isOffline' = ~isOffline
  /\ UNCHANGED <<reimbursementAccount, reimbursementAccountDraft, currentStep, mounted, rendered,
                 previous, preservedDraftRef, connectionRef, hasCleanup, connections, exceptHook>>

\* The reimbursement account changes in the store.
AccountChanges ==
  /\ reimbursementAccount' \in Accounts \ {reimbursementAccount}
  /\ UNCHANGED <<isOffline, reimbursementAccountDraft, currentStep, mounted, rendered,
                 previous, preservedDraftRef, connectionRef, hasCleanup, connections, exceptHook>>

\* The stored draft changes (the user edits it or the backend clears it);
\* Onyx is to call every connection with it.
DraftChanges ==
  /\ \A id \in DOMAIN connections : Len(connections[id].pending) < MaxPending
  /\ reimbursementAccountDraft' \in Drafts \ {reimbursementAccountDraft}
  /\ connections' = Notified(connections, reimbursementAccountDraft')
  /\ UNCHANGED <<isOffline, reimbursementAccount, currentStep, mounted, rendered,
                 previous, preservedDraftRef, connectionRef, hasCleanup, exceptHook>>

\* The user goes to another step.
StepChanges ==
  /\ currentStep' \in Steps \ {currentStep}
  /\ UNCHANGED <<isOffline, reimbursementAccount, reimbursementAccountDraft, mounted, rendered,
                 previous, preservedDraftRef, connectionRef, hasCleanup, connections, exceptHook>>

\* The component renders with the values of the store and runs the effects.
Render ==
  /\ mounted
  /\ rendered' = Props
  /\ previous' = PreviousOf(rendered)
  /\ preservedDraftRef' = RenderEffects(HookState, Props, rendered, previous).preserved
  /\ connectionRef' = RenderEffects(HookState, Props, rendered, previous).connection
  /\ hasCleanup' = RenderEffects(HookState, Props, rendered, previous).cleanup
  /\ connections' = RenderEffects(HookState, Props, rendered, previous).active
  /\ UNCHANGED <<storeVars, mounted, exceptHook>>

\* Onyx calls the callback of a connection with the draft it has to be
\* called with first; the callback may merge the preserved fields into the
\* stored draft and clear them.
Callback ==
  \E id \in DOMAIN connections :
    /\ connections[id].pending # <<>>
    /\ IF Restores(connections[id], Head(connections[id].pending), preservedDraftRef)
       THEN /\ reimbursementAccountDraft' = MergeDraft(reimbursementAccountDraft, preservedDraftRef[1].data)
            /\ preservedDraftRef' = clearPreservedDraft(HookState).preserved
            /\ connections' = Notified(Taken(connections, id), reimbursementAccountDraft')
       ELSE /\ connections' = Taken(connections, id)
            /\ UNCHANGED <<reimbursementAccountDraft, preservedDraftRef>>
    /\ UNCHANGED <<isOffline, reimbursementAccount, currentStep, mounted, rendered, previous,
                   connectionRef, hasCleanup, exceptHook>>

\* The component unmounts: the cleanups of its effects run.
Unmount ==
  /\ mounted
  /\ mounted' = FALSE
  /\ preservedDraftRef' = UnmountCleanups(HookState).preserved
  /\ connectionRef' = UnmountCleanups(HookState).connection
  /\ hasCleanup' = UnmountCleanups(HookState).cleanup
  /\ connections' = UnmountCleanups(HookState).active
  /\ UNCHANGED <<storeVars, rendered, previous, exceptHook>>

NextHook ==
  \/ NetworkChanges
  \/ AccountChanges
  \/ DraftChanges
  \/ StepChanges
  \/ Render
  \/ Callback
  \/ Unmount

\* The hook has nothing left to do: a further render would find every
\* dependency unchanged, and Onyx has no call outstanding.
HookAtRest ==
  /\ mounted
  /\ rendered = Props
  /\ previous = PreviousOf(rendered)
  /\ \A id \in DOMAIN connections : connections[id].pending = <<>>

\* C5: a draft preserved at a step is merged back once the stored draft is
\* null or empty while the hook is mounted, the step is still that step and
\* isLoading is false: the hook does not come to rest with the preserved
\* draft still waiting in that situation.
C5_PreservedDraftIsRestored ==
  ~ /\ HookAtRest
    /\ preservedDraftRef # <<>>
    /\ IsEmptyDraft(reimbursementAccountDraft)
    /\ currentStep = preservedDraftRef[1].step
    /\ IsLoadingOf(reimbursementAccount) = <<FALSE>>

(***************************************************************************)
(* sanitizeString applied to a string.                                     *)
(***************************************************************************)
MaxChars == 3

\* The characters the strings are made of: whitelisted ones of each class
\* (digits, a letter, the double quote, the backslash) and others.
SanitizeAlphabet == {"5", "0", "$", " ", "\"", "a", "bs", "bt"}

SanitizeInputs == SeqsUpTo(SanitizeAlphabet, MaxChars)

InitSanitize ==
  /\ sanitizeInput \in SanitizeInputs
  /\ sanitized = <<>>

IdleSanitize ==
  /\ sanitizeInput = <<>>
  /\ sanitized = <<>>

\* A call of sanitizeString.
SanitizeString ==
  /\ sanitized = <<>>
  /\ sanitized' = <<sanitizeString(sanitizeInput)>>
  /\ UNCHANGED <<sanitizeInput, exceptSanitize>>

NextSanitize == SanitizeString

\* The whitelist, character by character: the letters, the digits and
\* _ @ . / # & + - \ ' ; , "
Whitelist ==
  Range(SubSeq(Ascii, 34, 59)) \cup Range(SubSeq(Ascii, 66, 91))
    \cup Range(SubSeq(Ascii, 17, 26))
    \cup {"_", "@", ".", "/", "#", "&", "+", "-", "bs", "'", ";", ",", "\""}

\* C11: sanitizeString returns the string between one pair of double quotes,
\* its characters as they were, when the string has a character outside the
\* whitelist, and the string itself otherwise.
C11_QuotedIffOutsideWhitelist ==
  sanitized # <<>> =>
    IF \E i \in 1..Len(sanitizeInput) : sanitizeInput[i] \notin Whitelist
    THEN sanitized[1] = <<"\"">> \o sanitizeInput \o <<"\"">>
    ELSE sanitized[1] = sanitizeInput

\* "50$" came back quoted.
C11_Witness ==
  /\ sanitizeInput = <<"5", "0", "$">>
  /\ sanitized = << <<"\"", "5", "0", "$", "\"">> >>

\* "50" came back as it was.
C11_WitnessPlain ==
  /\ sanitizeInput = <<"5", "0">>
  /\ sanitized = << <<"5", "0">> >>

(***************************************************************************)
(* The lists of the search page: getListItem, getSections and              *)
(* getSortedSections, with the builders and the sorts they choose between. *)
(***************************************************************************)
MaxActions == 2

\* ReportActionsUtils.isDeletedAction: whether the action is marked deleted.
isDeletedAction(reportAction) == reportAction.deleted

\* The item pushed for a report action.
ReportActionListItemOf(d, reportAction) ==
  LET from == PersonalDetailsOf(d, reportAction.accountID) IN
  [from |-> from,
   formattedFrom |-> NameOf(from, ""),
   date |-> reportAction.created,
   keyForList |-> reportAction.reportActionID]
    @@ reportAction

\* The items of all the actions, the deleted ones too.
ItemsOfAllActions(d, reportActions) ==
  [i \in 1..Len(reportActions) |-> ReportActionListItemOf(d, reportActions[i])]

\* The items of the actions that are not deleted, in the order of the array.
ItemsOfActions(d, reportActions) ==
  LET kept == SelectSeq(reportActions, LAMBDA a : ~isDeletedAction(a))
  IN [i \in 1..Len(kept) |-> ReportActionListItemOf(d, kept[i])]

RECURSIVE ReportActionsSectionsFrom(_, _, _)
\* The loop over the keys of data, from the i-th key on.
ReportActionsSectionsFrom(d, i, reportActionItems) ==
  IF i > Len(d) THEN reportActionItems
  ELSE IF isReportActionEntry(d[i].key)
  THEN ReportActionsSectionsFrom(d, i + 1, reportActionItems \o ItemsOfActions(d, d[i].value))
  ELSE ReportActionsSectionsFrom(d, i + 1, reportActionItems)

getReportActionsSections(d) == ReportActionsSectionsFrom(d, 1, <<>>)

\* Object.keys(data).filter(isTransactionEntry).map(...)
getTransactionsSections(d) ==
  LET entries == SelectSeq(d, LAMBDA e : isTransactionEntry(e.key))
  IN [i \in 1..Len(entries) |-> TransactionListItemOf(d, entries[i].value)]

ChatListItem == "ChatListItem"

TransactionListItem == "TransactionListItem"

ReportListItem == "ReportListItem"

getListItem(type, status) ==
  IF type = S_chat THEN ChatListItem
  ELSE IF status = S_all THEN TransactionListItem
  ELSE ReportListItem

\* getSections with the test of the status before the test of the type.
getSectionsStatusFirst(type, status, d) ==
  IF status = S_all THEN getTransactionsSections(d)
  ELSE IF type = S_chat THEN getReportActionsSections(d)
  ELSE getReportSections(d)

getSections(type, status, d) ==
  IF type = S_chat THEN getReportActionsSections(d)
  ELSE IF status = S_all THEN getTransactionsSections(d)
  ELSE getReportSections(d)

\* The callback of reduce in getReportNewestTransactionDate: ?? binds
\* tighter than ?: and looser than >, so the condition is
\* curr.modifiedCreated ?? (curr.created > (max?.created ?? '')).
NewerOf(max, curr) ==
  IF "modifiedCreated" \in DOMAIN curr
  THEN IF curr.modifiedCreated # <<>> THEN curr ELSE max
  ELSE IF StrGreater(curr.created, max.created) THEN curr ELSE max

RECURSIVE ReduceNewest(_, _, _)
ReduceNewest(transactions, i, max) ==
  IF i > Len(transactions) THEN max
  ELSE ReduceNewest(transactions, i + 1, NewerOf(max, transactions[i]))

\* <<>> when the report has no transactions.
getReportNewestTransactionDate(report) ==
  IF "transactions" \notin DOMAIN report \/ report.transactions = <<>> THEN <<>>
  ELSE <<ReduceNewest(report.transactions, 1, report.transactions[1]).created>>

\* The comparator of getSortedReportData.
CompareReports(a, b) ==
  LET aNewestTransaction == getReportNewestTransactionDate(a)
      bNewestTransaction == getReportNewestTransactionDate(b)
  IN IF aNewestTransaction \in {<<>>, << <<>> >>} \/ bNewestTransaction \in {<<>>, << <<>> >>}
     THEN 0
     ELSE LocaleCompare(ToLowerCase(bNewestTransaction[1]), aNewestTransaction[1])

getSortedReportData(reports, eng) ==
  ArraySort(reports, [p \in Range(reports) \X Range(reports) |-> CompareReports(p[1], p[2])], eng)

\* The comparator of getSortedReportActionData.
CompareReportActions(a, b) ==
  IF "created" \notin DOMAIN a \/ "created" \notin DOMAIN b THEN 0
  ELSE LocaleCompare(ToLowerCase(b.created), a.created)

getSortedReportActionData(items, eng) ==
  ArraySort(items, [p \in Range(items) \X Range(items) |-> CompareReportActions(p[1], p[2])], eng)

getSortedSections(type, status, items, by, order, eng) ==
  IF type = S_chat THEN getSortedReportActionData(items, eng)
  ELSE IF status = S_all THEN getSortedTransactionData(items, by, order, eng)
  ELSE getSortedReportData(items, eng)

\* The created timestamps of the actions of the model.
ActionCreated ==
  [id \in {<<"5">>, <<"6">>, <<"7">>} |->
     IF id = <<"5">> THEN D_JAN2 ELSE IF id = <<"6">> THEN D_JAN1 ELSE D_JAN3]

ReportActionOf(id, deleted) ==
  [reportActionID |-> id, accountID |-> 1, created |-> ActionCreated[id], deleted |-> deleted]

\* The arrays of actions over the ids: every id at most once, each action
\* deleted or not.
ActionArrays(ids) ==
  {a \in SeqsUpTo({ReportActionOf(id, x) : id \in ids, x \in BOOLEAN}, MaxActions) :
     \A i, j \in 1..Len(a) : i # j => a[i].reportActionID # a[j].reportActionID}

\* The reportActions_ entry of a report, or none.
ReportActionsParts(reportID, ids) ==
  {<<>>} \cup {<<[key |-> COLLECTION_REPORT_ACTIONS \o reportID, value |-> a]>> : a \in ActionArrays(ids)}

ListReport(reportID) == CHOOSE e \in ReportEntries : e.key = COLLECTION_REPORT \o reportID

\* Transaction 8 is the later one.
ListTransaction(id, reportID) ==
  LET entry == TransactionEntry(id, reportID, [merchant |-> <<"Coffee Shop">>, modifiedMerchant |-> <<>>])
  IN IF id = <<"8">> THEN [entry EXCEPT !.value.created = D_JAN2] ELSE entry

\* The reports and transactions of a payload.
ReportParts ==
  { <<>>,
    <<ListReport(<<"1">>), ListTransaction(<<"7">>, <<"1">>)>>,
    <<ListTransaction(<<"7">>, <<"1">>), ListTransaction(<<"8">>, <<"2">>)>>,
    <<ListReport(<<"1">>), ListReport(<<"2">>),
      ListTransaction(<<"7">>, <<"1">>), ListTransaction(<<"8">>, <<"2">>)>>,
    <<ListReport(<<"2">>), ListTransaction(<<"8">>, <<"2">>),
      ListReport(<<"1">>), ListTransaction(<<"7">>, <<"1">>)>> }

ListPayloads ==
  {<<[key |-> PERSONAL_DETAILS_LIST, value |-> PersonalDetails]>> \o r \o a1 \o a2 :
     r \in ReportParts,
     a1 \in ReportActionsParts(<<"1">>, {<<"5">>, <<"6">>}),
     a2 \in ReportActionsParts(<<"2">>, {<<"7">>})}

ListTypes == {DATA_TYPES[i].value : i \in 1..Len(DATA_TYPES)}

ListStatuses == {S_all, S_drafts, S_unread}

InitLists ==
  /\ listType \in ListTypes
  /\ listStatus \in ListStatuses
  /\ listData \in ListPayloads
  /\ listItem = <<>>
  /\ sections = <<>>
  /\ sortedSections = <<>>

IdleLists ==
  /\ listType = <<>>
  /\ listStatus = <<>>
  /\ listData = <<>>
  /\ listItem = <<>>
  /\ sections = <<>>
  /\ sortedSections = <<>>

GetListItem ==
  /\ listItem = <<>>
  /\ listItem' = <<getListItem(listType, listStatus)>>
  /\ UNCHANGED <<listType, listStatus, listData, sections, sortedSections, exceptLists>>

GetSections ==
  /\ sections = <<>>
  /\ sections' = <<getSections(listType, listStatus, listData)>>
  /\ UNCHANGED <<listType, listStatus, listData, listItem, sortedSections, exceptLists>>

\* getSortedSections on what getSections returned; the transactions are
\* sorted by a column or by none.  The sorts work in place: the array given
\* is the array returned.
GetSortedSections ==
  /\ sections # <<>>
  /\ sortedSections = <<>>
  /\ \E by \in {"receipt", Undefined}, order \in {"asc", Undefined} :
       sortedSections' = <<getSortedSections(listType, listStatus, sections[1], by, order, engine)>>
  /\ sections' = sortedSections'
  /\ UNCHANGED <<listType, listStatus, listData, listItem, exceptLists>>

NextLists == GetListItem \/ GetSections \/ GetSortedSections

\* The three shapes of list items, told apart as the type guards of the
\* code do: by reportActionID, by transactions, by transactionID.
ShapeOf(item) ==
  IF "reportActionID" \in DOMAIN item THEN "report action"
  ELSE IF "transactions" \in DOMAIN item THEN "report"
  ELSE IF "transactionID" \in DOMAIN item THEN "transaction"
  ELSE "none"

\* The shape the query asks for: the type first, then the status.
ShapeAskedFor ==
  IF listType = S_chat THEN "report action"
  ELSE IF listStatus = S_all THEN "transaction"
  ELSE "report"

\* The keys of the payload that give items of the shape.
SourcesOf(shape) ==
  IF shape = "report action"
  THEN {<<i, j>> \in (1..Len(listData)) \X (1..MaxActions) :
          /\ isReportActionEntry(listData[i].key)
          /\ j <= Len(listData[i].value)
          /\ ~listData[i].value[j].deleted}
  ELSE IF shape = "transaction"
  THEN {<<i, 1>> : i \in {i \in 1..Len(listData) : isTransactionEntry(listData[i].key)}}
  ELSE {<<i, 1>> : i \in {i \in 1..Len(listData) : isReportEntry(listData[i].key)}}

OfShapeAskedFor(items) ==
  /\ \A i \in 1..Len(items) : ShapeOf(items[i]) = ShapeAskedFor
  /\ Len(items) = Cardinality(SourcesOf(ShapeAskedFor))

\* The date a list is sorted by: created for an action, the created of the
\* transactions for a report of the model (a report holds at most one).
SortDateOf(item) ==
  IF ShapeOf(item) = "report action" THEN <<item.created>>
  ELSE IF ShapeOf(item) = "report" /\ item.transactions # <<>> THEN <<item.transactions[1].created>>
  ELSE <<>>

\* C13: getListItem, getSections and getSortedSections all choose by the
\* type first and then by the status: the chat type gives report-action
\* items whatever the status, otherwise the expense status "all" gives
\* transaction items, and every other status gives reports; the sort of the
\* chosen shape is the one applied (actions and reports come out newest
\* first).
C13_DispatchByTypeThenStatus ==
  /\ listItem # <<>> =>
       listItem[1] = (IF ShapeAskedFor = "report action" THEN ChatListItem
                      ELSE IF ShapeAskedFor = "transaction" THEN TransactionListItem
                      ELSE ReportListItem)
  /\ sections # <<>> => OfShapeAskedFor(sections[1])
  /\ sortedSections # <<>> =>
       /\ OfShapeAskedFor(sortedSections[1])
       /\ \A i, j \in 1..Len(sortedSections[1]) :
            LET a == SortDateOf(sortedSections[1][i])
                b == SortDateOf(sortedSections[1][j])
            IN (i < j /\ a # <<>> /\ b # <<>>) => ~StrGreater(b[1], a[1])

\* A chat query with the status "all" got its two actions as report-action
\* items, newest first, although the payload holds transactions too.
C13_Witness ==
  /\ listType = S_chat
  /\ listStatus = S_all
  /\ \E i \in 1..Len(listData) : isTransactionEntry(listData[i].key)
  /\ listItem = <<ChatListItem>>
  /\ sortedSections # <<>>
  /\ Len(sortedSections[1]) = 2
  /\ sortedSections[1][1].reportActionID = <<"5">>
  /\ sections = sortedSections

\* A query of another type with another status than "all" got reports.
C13_WitnessReports ==
  /\ listType = S_expense
  /\ listStatus = S_drafts
  /\ listItem = <<ReportListItem>>
  /\ sortedSections # <<>>
  /\ Len(sortedSections[1]) = 2
  /\ sortedSections[1][1].reportID = <<"2">>

\* An invoice query with the status "all" got transaction items.
C13_WitnessTransactions ==
  /\ listType = S_invoice
  /\ listStatus = S_all
  /\ listItem = <<TransactionListItem>>
  /\ sections # <<>>
  /\ Len(sections[1]) = 2

\* The report actions of the payload: the actions in the arrays under the
\* keys that start with reportActions_.
ActionsOfPayload ==
  UNION {Range(listData[i].value) : i \in {i \in 1..Len(listData) : isReportActionEntry(listData[i].key)}}

\* C14: for a chat query the items are the report actions of the payload
\* that are not deleted, one item each, and none for a deleted action; the
\* keyForList of an item is the reportActionID of its action and its date is
\* the created timestamp of the action.
C14_OneItemPerLiveReportAction ==
  (listType = S_chat /\ sections # <<>>) =>
    LET items == sections[1] IN
    /\ \A action \in ActionsOfPayload :
         Cardinality({i \in 1..Len(items) : items[i].reportActionID = action.reportActionID})
           = IF action.deleted THEN 0 ELSE 1
    /\ \A i \in 1..Len(items) :
         \E action \in ActionsOfPayload :
           /\ ~action.deleted
           /\ items[i].keyForList = action.reportActionID
           /\ items[i].date = action.created

\* Three actions under two keys, one of them deleted: two items.
C14_Witness ==
  /\ listType = S_chat
  /\ sections # <<>>
  /\ Cardinality(ActionsOfPayload) = 3
  /\ Cardinality({a \in ActionsOfPayload : a.deleted}) = 1
  /\ Cardinality({i \in 1..Len(listData) : isReportActionEntry(listData[i].key)}) = 2
  /\ Len(sections[1]) = 2

\* The callback of a connection merges the preserved fields: the only step
\* of a mounted hook that clears the preserved draft with the rendered
\* values unchanged.
MergeHappens ==
  /\ preservedDraftRef # <<>>
  /\ preservedDraftRef' = <<>>
  /\ mounted'
  /\ rendered' = rendered

\* After a render that saw another step before, no preserved draft is left.
ClearedAfterStepChange ==
  (mounted /\ previous.step # "" /\ previous.step # rendered.step) => preservedDraftRef = <<>>

\* A draft is merged only at the step it was preserved at.
MergedAtItsStep ==
  MergeHappens => preservedDraftRef[1].step = rendered.step

\* A preserved draft appears only in a render that saw the network come
\* back, and it is of the step of that render and of the render before.
PreservedOnlyByCapture ==
  (preservedDraftRef = <<>> /\ preservedDraftRef' # <<>>) =>
    /\ rendered.isOffline
    /\ ~rendered'.isOffline
    /\ preservedDraftRef'[1].step = rendered'.step
    /\ rendered'.step = rendered.step

\* C15: data preserved at a step is never merged once the step has changed:
\* a render that sees a previous step that is not the current step leaves no
\* preserved draft, a merge happens only at the step the data was preserved
\* at, and a preserved draft comes back only by a new preservation on an
\* offline-to-online render.
C15_StepChangeClearsPreserved ==
  /\ []ClearedAfterStepChange
  /\ [][MergedAtItsStep /\ PreservedOnlyByCapture]_vars

\* A render saw the step change with a preserved draft at hand (it made the
\* connection of the new step) and the preserved draft is gone.
C15_Witness ==
  /\ mounted
  /\ previous.step # rendered.step
  /\ connectionRef # <<>>
  /\ connections[connectionRef[1]].step = rendered.step
  /\ preservedDraftRef = <<>>

\* What a preserved draft looks like.
WellFormedPreserved ==
  preservedDraftRef # <<>> =>
    /\ preservedDraftRef[1].step \in {BANK_ACCOUNT, COMPANY, REQUESTOR}
    /\ DOMAIN preservedDraftRef[1].data # {}
    /\ DOMAIN preservedDraftRef[1].data \subseteq getFieldsForStep(preservedDraftRef[1].step)

\* The render that sets the preserved draft.
CapturedOnReconnect ==
  (preservedDraftRef' # <<>> /\ preservedDraftRef' # preservedDraftRef) =>
    /\ rendered.isOffline
    /\ ~isOffline
    /\ rendered.account # <<>>
    /\ reimbursementAccountDraft # <<>>
    /\ DOMAIN reimbursementAccountDraft[1] # {}
    /\ preservedDraftRef'[1].step = currentStep
    /\ \A field \in DOMAIN preservedDraftRef'[1].data :
         /\ field \in DOMAIN reimbursementAccountDraft[1]
         /\ preservedDraftRef'[1].data[field] = reimbursementAccountDraft[1][field]

C17_AtMostOneConnection ==
  /\ Cardinality(DOMAIN connections) <= 1
  /\ connectionRef # <<>> => DOMAIN connections = {connectionRef[1]}
  /\ ~mounted => (connections = EmptyConnections /\ preservedDraftRef = <<>> /\ ~ENABLED Callback)

\* The connection effect ran again in the last render, where isLoading had
\* changed, with a preserved draft: one connection is active.
C17_Witness ==
  /\ mounted
  /\ preservedDraftRef # <<>>
  /\ connectionRef # <<>>
  /\ connections[connectionRef[1]].isLoading # IsLoadingOf(previous.account)

\* A connection of the step and the isLoading of the last render is being
\* called with a draft that is null or empty.
CalledWithEmptyDraft ==
  \E id \in DOMAIN connections :
    /\ connections[id].pending # <<>>
    /\ IsEmptyDraft(Head(connections[id].pending))
    /\ connections[id].pending' = Tail(connections[id].pending) \o <<reimbursementAccountDraft'>>
    /\ connections[id].step = rendered.step
    /\ connections[id].isLoading = IsLoadingOf(rendered.account)

\* The stored draft after the step is the stored draft before it with the
\* preserved fields set to their preserved values.
PreservedFieldsMerged ==
  /\ reimbursementAccountDraft' # <<>>
  /\ DOMAIN reimbursementAccountDraft'[1]
       = DOMAIN preservedDraftRef[1].data
           \cup (IF reimbursementAccountDraft = <<>> THEN {} ELSE DOMAIN reimbursementAccountDraft[1])
  /\ \A field \in DOMAIN reimbursementAccountDraft'[1] :
       reimbursementAccountDraft'[1][field]
         = IF field \in DOMAIN preservedDraftRef[1].data THEN preservedDraftRef[1].data[field]
           ELSE reimbursementAccountDraft[1][field]

\* A step that changes the stored draft and is not a merge of the hook is a
\* change of the store: it leaves the refs of the hook and its renders alone.
DraftWrittenByMergeOnly ==
  (reimbursementAccountDraft' # reimbursementAccountDraft /\ ~MergeHappens) =>
    /\ preservedDraftRef' = preservedDraftRef
    /\ connectionRef' = connectionRef
    /\ rendered' = rendered
    /\ mounted' = mounted

\* The merge happens in a callback called with a null or empty draft, with
\* a preserved draft of the step of the last render and isLoading false in
\* that render, and it merges the preserved fields.
MergeOnlyWhenDraftObservedEmpty ==
  MergeHappens =>
    /\ CalledWithEmptyDraft
    /\ preservedDraftRef[1].step = rendered.step
    /\ IsLoadingOf(rendered.account) = <<FALSE>>
    /\ PreservedFieldsMerged

CallbackMerges ==
  /\ rendered' = rendered
  /\ previous' = previous
  /\ \E id \in DOMAIN connections \cap DOMAIN connections' :
       /\ connections[id].pending # <<>>
       /\ connections'[id].pending # connections[id].pending
       /\ connections'[id].pending
            = Tail(connections[id].pending) \o <<reimbursementAccountDraft'>>

\* The merge takes the preserved draft away in the same step.
MergeClearsPreserved ==
  CallbackMerges => (preservedDraftRef # <<>> /\ preservedDraftRef' = <<>>)

\* C27: a preserved draft is restored at most once: the callback that merges
\* clears the preserved draft in the same step, and a preserved draft is
\* there again only after a render that saw the network come back, so that
\* between two preservations there is at most one merge, however often the
\* draft is cleared and the callback called.
C27_RestoredAtMostOnce ==
  [][MergeClearsPreserved /\ PreservedOnlyByCapture]_vars

\* After the restore the draft was cleared once more: the connection of the
\* step, with isLoading false, is to be called with a null draft and there
\* is nothing preserved to merge.
C27_Witness ==
  /\ mounted
  /\ preservedDraftRef = <<>>
  /\ connectionRef # <<>>
  /\ connections[connectionRef[1]].step = rendered.step
  /\ connections[connectionRef[1]].isLoading = <<FALSE>>
  /\ previous.step = rendered.step
  /\ rendered.draft = <<[accountNumber |-> "1111"]>>
  /\ reimbursementAccountDraft = <<>>
  /\ connections[connectionRef[1]].pending = << <<>> >>

(***************************************************************************)
(* buildQueryStringFromFilterFormValues: from the values of the advanced   *)
(* filters form to a query string.  The form is an object: a sequence of   *)
(* fields in insertion order, each with a string or an array of strings.   *)
(***************************************************************************)
MaxFields == 3

\* filterValues[name]: <<>> when undefined.
FieldOf(filterValues, name) ==
  LET hits == SelectSeq(filterValues, LAMBDA e : e.key = name)
  IN IF hits = <<>> THEN <<>> ELSE <<hits[1].value>>

\* A string that is not empty.
TruthyString(field) == field # <<>> /\ IsString(field[1]) /\ field[1].str # <<>>

\* The value of CONST.SEARCH.SYNTAX_FILTER_KEYS that is equal to the form
\* key: <<>> when find gives undefined.
SyntaxKeyOf(filterKey) ==
  LET hits == {i \in 1..Len(FILTER_KEY_NAMES) : FILTER_KEY_NAMES[i] = filterKey}
  IN IF hits = {} THEN <<>> ELSE <<SYNTAX_FILTER_KEYS[CHOOSE i \in hits : TRUE]>>

\* String.prototype.split with a separator of one character.
Split(s, sep) ==
  LET points == {i \in 1..Len(s) : s[i] = sep}
      count == Cardinality(points)
      point(k) == IF k = 0 THEN 0
                  ELSE IF k > count THEN Len(s) + 1
                  ELSE CHOOSE x \in points : Cardinality({y \in points : y < x}) = k - 1
  IN [k \in 1..(count + 1) |-> SubSeq(s, point(k - 1) + 1, point(k) - 1)]

\* String.prototype.trim, for strings whose only white space is the space.
Trim(s) ==
  LET inked == {i \in 1..Len(s) : s[i] # " "}
  IN IF inked = {} THEN <<>>
     ELSE SubSeq(s, CHOOSE i \in inked : \A j \in inked : i <= j,
                    CHOOSE i \in inked : \A j \in inked : i >= j)

\* The array spread as it is, without the Set.
EveryValue(values) == values

\* [...new Set(filterValue)]: the first occurrence of every value.
Unique(values) ==
  LET firsts == {i \in 1..Len(values) : \A j \in 1..(i - 1) : values[j] # values[i]}
      nth(k) == CHOOSE i \in firsts : Cardinality({j \in firsts : j < i}) = k - 1
  IN [k \in 1..Cardinality(firsts) |-> values[nth(k)]]

MapSanitize(values) == [i \in 1..Len(values) |-> sanitizeString(values[i])]

buildDateFilterQuery(filterValues) ==
  LET dateBefore == FieldOf(filterValues, "dateBefore")
      dateAfter == FieldOf(filterValues, "dateAfter")
  IN (IF TruthyString(dateBefore) THEN SYNTAX_FILTER_KEYS[2] \o <<"<">> \o dateBefore[1].str ELSE <<>>)
       \o (IF TruthyString(dateBefore) /\ TruthyString(dateAfter) THEN <<" ">> ELSE <<>>)
       \o (IF TruthyString(dateAfter) THEN SYNTAX_FILTER_KEYS[2] \o <<">">> \o dateAfter[1].str ELSE <<>>)

buildAmountFilterQuery(filterValues) ==
  LET lessThan == FieldOf(filterValues, "lessThan")
      greaterThan == FieldOf(filterValues, "greaterThan")
  IN (IF TruthyString(greaterThan) THEN KEY_AMOUNT \o <<">">> \o greaterThan[1].str ELSE <<>>)
       \o (IF TruthyString(lessThan) /\ TruthyString(greaterThan) THEN <<" ">> ELSE <<>>)
       \o (IF TruthyString(lessThan) THEN KEY_AMOUNT \o <<"<">> \o lessThan[1].str ELSE <<>>)

\* The sort read from the form instead of the default.
SortPartsOfForm(filterValues) ==
  LET by == FieldOf(filterValues, "sortBy")
      order == FieldOf(filterValues, "sortOrder")
  IN << ROOT_SORT_BY \o <<":">> \o (IF TruthyString(by) THEN by[1].str ELSE S_date),
        ROOT_SORT_ORDER \o <<":">> \o (IF TruthyString(order) THEN order[1].str ELSE S_desc) >>

\* The two parts pushed first.
SortParts(filterValues) ==
  << ROOT_SORT_BY \o <<":">> \o S_date, ROOT_SORT_ORDER \o <<":">> \o S_desc >>

\* The part of type, status or policyID, if the field is set.
RootPart(filterValues, name, rootKey) ==
  IF TruthyString(FieldOf(filterValues, name))
  THEN <<rootKey \o <<":">> \o sanitizeString(FieldOf(filterValues, name)[1].str)>>
  ELSE <<>>

\* What the callback of map returns for a field: <<>> for undefined.
MappedFilter(filterKey, filterValue) ==
  IF /\ filterKey \in {"merchant", "description", "reportID"}
     /\ TruthyString(<<filterValue>>)
     /\ SyntaxKeyOf(filterKey) # <<>>
  THEN <<SyntaxKeyOf(filterKey)[1] \o <<":">> \o sanitizeString(filterValue.str)>>
  ELSE IF filterKey = "keyword" /\ TruthyString(<<filterValue>>)
  THEN <<JoinFrom(MapSanitize(Split(filterValue.str, " ")), <<" ">>, 1)>>
  ELSE IF /\ filterKey \in {"category", "cardID", "taxRate", "expenseType", "tag", "currency",
                            "from", "to", "in"}
          /\ "list" \in DOMAIN filterValue
          /\ Len(filterValue.list) > 0
          /\ SyntaxKeyOf(filterKey) # <<>>
  THEN <<SyntaxKeyOf(filterKey)[1] \o <<":">> \o JoinFrom(MapSanitize(Unique(filterValue.list)), <<",">>, 1)>>
  ELSE <<>>

RECURSIVE MappedFiltersFrom(_, _)
\* Object.entries(otherFilters).map(...).filter(...), from the i-th field on.
MappedFiltersFrom(filterValues, i) ==
  IF i > Len(filterValues) THEN <<>>
  ELSE IF filterValues[i].key \in {"type", "status", "policyID"}
  THEN MappedFiltersFrom(filterValues, i + 1)
  ELSE SelectSeq(MappedFilter(filterValues[i].key, filterValues[i].value), LAMBDA part : part # <<>>)
         \o MappedFiltersFrom(filterValues, i + 1)

\* filtersString when it is joined.
FiltersStringOf(filterValues) ==
  SortParts(filterValues)
    \o RootPart(filterValues, "type", ROOT_TYPE)
    \o RootPart(filterValues, "status", ROOT_STATUS)
    \o RootPart(filterValues, "policyID", ROOT_POLICY_ID)
    \o MappedFiltersFrom(filterValues, 1)
    \o <<buildDateFilterQuery(filterValues), buildAmountFilterQuery(filterValues)>>

buildQueryStringFromFilterFormValues(filterValues) ==
  Trim(JoinFrom(FiltersStringOf(filterValues), <<" ">>, 1))

S_MERCHANT == <<"m", "e", "r", "c", "h", "a", "n", "t">>

S_TYPE_ODD == <<"e", "x", "p", "e", "n", "s", "e", " ", "s", "o", "r", "t", "B", "y", ":", "t", "a", "g">>

S_MERCHANT_SPACED == <<"C", "o", "f", "f", "e", "e", " ", "S", "h", "o", "p">>

S_MERCHANT_QUOTED == <<"a", "\"", " ", "s", "o", "r", "t", "B", "y", ":", "t", "a", "g", " ", "\"", "b">>

S_KEYWORDS == <<"l", "u", "n", "c", "h", " ", "s", "o", "r", "t", "O", "r", "d", "e", "r", ":", "a", "s", "c">>

\* The fields a form of the model may have.  Dates come from the date
\* picker and amounts from the amount input.
FormFields ==
  { [key |-> "type", value |-> Str(S_expense)],
    [key |-> "type", value |-> Str(S_TYPE_ODD)],
    [key |-> "status", value |-> Str(S_all)],
    [key |-> "policyID", value |-> Str(<<"P", "1">>)],
    [key |-> "policyID", value |-> Str(<<>>)],
    [key |-> "sortBy", value |-> Str(S_MERCHANT)],
    [key |-> "sortOrder", value |-> Str(<<"a", "s", "c">>)],
    [key |-> "merchant", value |-> Str(S_MERCHANT_SPACED)],
    [key |-> "merchant", value |-> Str(S_MERCHANT_QUOTED)],
    [key |-> "keyword", value |-> Str(S_KEYWORDS)],
    [key |-> "category", value |-> List(<<<<"A">>, <<"B">>, <<"A">>>>)],
    [key |-> "tag", value |-> List(<<>>)],
    [key |-> "tag", value |-> List(<<<<"x", " ", "y">>, <<"z">>, <<"x", " ", "y">>, <<"z">>>>)],
    [key |-> "currency", value |-> List(<<S_USD, S_USD>>)],
    [key |-> "in", value |-> List(<<<<"7">>>>)],
    [key |-> "dateBefore", value |-> Str(D_JAN2)],
    [key |-> "dateAfter", value |-> Str(D_JAN1)],
    [key |-> "greaterThan", value |-> Str(<<"1", "0", "0">>)],
    [key |-> "lessThan", value |-> Str(<<"5", "0", "0">>)] }

\* The forms: up to MaxFields fields with different keys, in any order.
FilterForms ==
  {f \in SeqsUpTo(FormFields, MaxFields) : \A i, j \in 1..Len(f) : i # j => f[i].key # f[j].key}

InitBuilder ==
  /\ formValues \in FilterForms
  /\ filtersString = <<>>
  /\ queryString = <<>>

IdleBuilder ==
  /\ formValues = <<>>
  /\ filtersString = <<>>
  /\ queryString = <<>>

\* A call of buildQueryStringFromFilterFormValues.
BuildQueryStringFromFilterFormValues ==
  /\ queryString = <<>>
  /\ filtersString' = <<FiltersStringOf(formValues)>>
  /\ queryString' = <<buildQueryStringFromFilterFormValues(formValues)>>
  /\ UNCHANGED <<formValues, exceptBuilder>>

NextBuilder == BuildQueryStringFromFilterFormValues

\* A part that reads as a token of a root key, or of a sort key.
IsRootPart(part) == \E k \in 1..Len(SYNTAX_ROOT_KEYS) : StartsWith(part, SYNTAX_ROOT_KEYS[k] \o <<":">>)

IsSortPart(part) ==
  StartsWith(part, ROOT_SORT_BY \o <<":">>) \/ StartsWith(part, ROOT_SORT_ORDER \o <<":">>)

\* A value as it is to be written: between double quotes when it has a
\* character outside the whitelist.
Written(value) ==
  IF \E i \in 1..Len(value) : value[i] \notin Whitelist THEN <<"\"">> \o value \o <<"\"">>
  ELSE value

\* The part of a root field of the form is there exactly when the field is
\* a string that is not empty.
RootFieldEmitted(parts, name, rootKey) ==
  LET field == FieldOf(formValues, name) IN
  IF field # <<>> /\ field[1].str # <<>>
  THEN Cardinality({i \in 1..Len(parts) : parts[i] = rootKey \o <<":">> \o Written(field[1].str)}) = 1
  ELSE \A i \in 1..Len(parts) : ~StartsWith(parts[i], rootKey \o <<":">>)

ListFieldNames ==
  {"category", "cardID", "taxRate", "expenseType", "tag", "currency", "from", "to", "in"}

RECURSIVE KeptOnce(_, _)
\* The values of a list that are not in seen, each where it comes first.
KeptOnce(list, seen) ==
  IF list = <<>> THEN <<>>
  ELSE IF Head(list) \in seen THEN KeptOnce(Tail(list), seen)
  ELSE <<Head(list)>> \o KeptOnce(Tail(list), seen \cup {Head(list)})

RECURSIVE CommaSeparated(_)
\* The values as they are written, with a comma between two of them.
CommaSeparated(values) ==
  IF values = <<>> THEN <<>>
  ELSE IF Len(values) = 1 THEN Written(values[1])
  ELSE Written(values[1]) \o <<",">> \o CommaSeparated(Tail(values))

\* The number of values between the commas of a segment, after its key.
ValuesRendered(segment, key) ==
  Len(Split(SubSeq(segment, Len(key) + 2, Len(segment)), ","))

\* The parts of a list field: none for an empty list, else one part with
\* every distinct value once, where it comes first in the list.
ListFieldEmitted(parts, name) ==
  LET field == FieldOf(formValues, name)
      key == SyntaxKeyOf(name)[1]
      segments == {i \in 1..Len(parts) : StartsWith(parts[i], key \o <<":">>)}
  IN IF field = <<>> \/ field[1].list = <<>> THEN segments = {}
     ELSE /\ Cardinality(segments) = 1
          /\ \A i \in segments :
               /\ parts[i] = key \o <<":">> \o CommaSeparated(KeptOnce(field[1].list, {}))
               /\ ValuesRendered(parts[i], key) = Cardinality(Range(field[1].list))

\* C28: buildQueryStringFromFilterFormValues renders a list field of the
\* form (category, cardID, taxRate, expenseType, tag, currency, from, to,
\* in) as one part key:v1,v2,... that has every distinct value of the list
\* exactly once, in the order of the first occurrences, and renders no part
\* for the key when the list is empty.
C28_ListFieldsRenderedWithoutDuplicates ==
  queryString # <<>> =>
    \A name \in ListFieldNames : ListFieldEmitted(filtersString[1], name)

\* A form whose tags are "x y", z, "x y", z and whose category list is
\* A, B, A: the parts are tag:"x y",z and category:A,B.
C28_Witness ==
  /\ queryString # <<>>
  /\ FieldOf(formValues, "tag") = <<List(<<<<"x", " ", "y">>, <<"z">>, <<"x", " ", "y">>, <<"z">>>>)>>
  /\ FieldOf(formValues, "category") = <<List(<<<<"A">>, <<"B">>, <<"A">>>>)>>
  /\ \E i \in 1..Len(filtersString[1]) :
       filtersString[1][i] = <<"t", "a", "g", ":", "\"", "x", " ", "y", "\"", ",", "z">>
  /\ \E i \in 1..Len(filtersString[1]) :
       filtersString[1][i] = <<"c", "a", "t", "e", "g", "o", "r", "y", ":", "A", ",", "B">>

\* A form with an empty list of tags: no part of the query is of the tag.
C28_WitnessEmptyList ==
  /\ queryString # <<>>
  /\ FieldOf(formValues, "tag") = <<List(<<>>)>>
  /\ \A i \in 1..Len(filtersString[1]) : ~StartsWith(filtersString[1][i], <<"t", "a", "g", ":">>)

(***************************************************************************)
(* getReportNewestTransactionDate and getSortedReportData on report items  *)
(* whose transactions have a created date and may have a modifiedCreated.  *)
(***************************************************************************)
MaxReports == 2

MaxTransactions == 2

\* The transactions of the model; modifiedCreated is undefined, empty or a date.
DatedTransactions ==
  {[created |-> c] : c \in {D_JAN1, D_JAN3}}
    \cup {[created |-> c, modifiedCreated |-> m] : c \in {D_JAN1, D_JAN3}, m \in {<<>>, D_JAN2}}

ReportItem(id, transactions) == [reportID |-> id, keyForList |-> id, transactions |-> transactions]

\* The lists of reports: report i of a list has the id i.
ReportLists ==
  UNION {{[i \in 1..n |-> ReportItem(i, f[i])] :
            f \in [1..n -> SeqsUpTo(DatedTransactions, MaxTransactions)]} : n \in 0..MaxReports}

InitReportSort ==
  /\ reportList \in ReportLists
  /\ newestDates = <<>>
  /\ sortedReports = <<>>

IdleReportSort ==
  /\ reportList = <<>>
  /\ newestDates = <<>>
  /\ sortedReports = <<>>

\* getReportNewestTransactionDate called on every report of the list.
GetReportNewestTransactionDate ==
  /\ newestDates = <<>>
  /\ newestDates' = <<[i \in 1..Len(reportList) |->
                         [reportID |-> reportList[i].reportID,
                          date |-> getReportNewestTransactionDate(reportList[i])]]>>
  /\ UNCHANGED <<reportList, sortedReports, exceptReportSort>>

\* getSortedReportData(reportList): the list is sorted in place and returned.
GetSortedReportData ==
  /\ sortedReports = <<>>
  /\ sortedReports' = <<getSortedReportData(reportList, engine)>>
  /\ reportList' = getSortedReportData(reportList, engine)
  /\ UNCHANGED <<newestDates, exceptReportSort>>

NextReportSort == GetReportNewestTransactionDate \/ GetSortedReportData

\* The date that counts for a transaction: modifiedCreated when it has one,
\* else created.
EffectiveDate(transaction) ==
  IF "modifiedCreated" \in DOMAIN transaction /\ transaction.modifiedCreated # <<>>
  THEN transaction.modifiedCreated
  ELSE transaction.created

\* The latest of the effective dates of the transactions of a report that
\* has some.
NewestDateOf(report) ==
  LET dates == {EffectiveDate(report.transactions[i]) : i \in 1..Len(report.transactions)}
  IN CHOOSE d \in dates : \A e \in dates : ~StrGreater(e, d)

\* C19: getReportNewestTransactionDate gives the latest effective date of
\* the transactions of a report (modifiedCreated when there is one, else
\* created), and getSortedReportData leaves the reports in the descending
\* order of that date.
C19_ReportsSortedByNewestTransaction ==
  /\ newestDates # <<>> =>
       \A i, j \in 1..Len(reportList) :
         (newestDates[1][i].reportID = reportList[j].reportID /\ reportList[j].transactions # <<>>)
           => newestDates[1][i].date = <<NewestDateOf(reportList[j])>>
  /\ (sortedReports # <<>> /\ \A i \in 1..Len(sortedReports[1]) : sortedReports[1][i].transactions # <<>>) =>
       \A i, j \in 1..Len(sortedReports[1]) :
         i < j => ~StrGreater(NewestDateOf(sortedReports[1][j]), NewestDateOf(sortedReports[1][i]))

(***************************************************************************)
(* buildFilterString applied to a key and the constraints under it.        *)
(***************************************************************************)
MaxConstraints == 3

\* The constraints of the model: one plain value and one that is quoted.
Constraints ==
  {QueryFilter(o, v) : o \in {"eq", "neq", "gt", "lt"}, v \in {<<"A">>, <<"b", " ", "c">>}}

InitFilterString ==
  /\ constraintKey \in {KEY_CATEGORY, KEY_AMOUNT, KEY_KEYWORD}
  /\ keyFilters \in SeqsUpTo(Constraints, MaxConstraints)
  /\ filterString = <<>>

IdleFilterString ==
  /\ constraintKey = <<>>
  /\ keyFilters = <<>>
  /\ filterString = <<>>

\* A call of buildFilterString.
BuildFilterString ==
  /\ filterString = <<>>
  /\ filterString' = <<buildFilterString(constraintKey, keyFilters)>>
  /\ UNCHANGED <<constraintKey, keyFilters, exceptFilterString>>

NextFilterString == BuildFilterString

\* The constraint at i goes on with the segment of the one before: both are
\* eq or both are neq.
JoinsPrevious(constraints, i) ==
  /\ i > 1
  /\ constraints[i].operator \in {"eq", "neq"}
  /\ constraints[i - 1].operator = constraints[i].operator

RECURSIVE SegmentsFrom(_, _, _, _)
\* The segments of the constraints from the i-th on: key, sign and value for
\* a constraint that starts a segment, with before in front of it, and
\* delimiter and value for one that goes on with a segment.
SegmentsFrom(key, constraints, i, before) ==
  IF i > Len(constraints) THEN <<>>
  ELSE (IF JoinsPrevious(constraints, i)
        THEN (IF key = KEY_KEYWORD THEN <<" ">> ELSE <<",">>) \o Written(constraints[i].value)
        ELSE (IF i = 1 THEN before ELSE <<" ">>)
               \o key \o operatorToSignMap[constraints[i].operator] \o Written(constraints[i].value))
         \o SegmentsFrom(key, constraints, i + 1, before)

RECURSIVE SpacedValuesFrom(_, _)
\* Every value written after a space.
SpacedValuesFrom(constraints, i) ==
  IF i > Len(constraints) THEN <<>>
  ELSE <<" ">> \o Written(constraints[i].value) \o SpacedValuesFrom(constraints, i + 1)

\* C20, as claimed: for every key, the keyword key too, the string is the
\* segments separated by one space (a space in front of the first segment
\* is let pass): a run of eq or of neq constraints is one segment
\* key, sign, values joined by the delimiter, and every other constraint is
\* a segment key, sign, value of its own; the values are sanitized.
C20_RunsBecomeSegments ==
  filterString # <<>> =>
    \/ filterString[1] = SegmentsFrom(constraintKey, keyFilters, 1, <<>>)
    \/ filterString[1] = SegmentsFrom(constraintKey, keyFilters, 1, <<" ">>)

\* C20, amended: that holds for every key but the keyword key, with a space
\* in front of every segment, the first too; for the keyword key every
\* constraint gives a space and its sanitized value, without key or sign.
C20_RunsBecomeSegmentsButForKeyword ==
  filterString # <<>> =>
    IF constraintKey = KEY_KEYWORD
    THEN filterString[1] = SpacedValuesFrom(keyFilters, 1)
    ELSE filterString[1] = SegmentsFrom(constraintKey, keyFilters, 1, <<" ">>)

\* Two eq, one neq and one gt constraint under category: three segments.
C20_Witness ==
  /\ constraintKey = KEY_CATEGORY
  /\ Len(keyFilters) = 3
  /\ keyFilters[1].operator = "eq"
  /\ keyFilters[2].operator = "eq"
  /\ keyFilters[3].operator = "gt"
  /\ keyFilters[2].value = <<"b", " ", "c">>
  /\ filterString # <<>>
  /\ Cardinality(SplitPoints(filterString[1], " ")) = 2

\* Constraints under the keyword key.
C20_WitnessKeyword ==
  /\ constraintKey = KEY_KEYWORD
  /\ Len(keyFilters) = 2
  /\ keyFilters[1].operator = "eq"
  /\ keyFilters[2].operator = "neq"
  /\ filterString # <<>>
  /\ ~StartsWith(filterString[1], <<" ">> \o KEY_KEYWORD)

(***************************************************************************)
(* shouldShowYear, on a payload and on the list items built from it.       *)
(*                                                                         *)
(* The time zone of the device is part of the state: new Date(date) reads  *)
(* a date written yyyy-MM-dd as midnight UTC and getFullYear answers in    *)
(* local time, which west of Greenwich is the evening of the day before.   *)
(***************************************************************************)
MaxDated == 2

\* const currentYear = new Date().getFullYear(), for a device in 2024.
currentYear == 2024

\* The year of an Invalid Date: different from every year.
NaN == -1

TimeZones == {"west", "utc", "east"}

\* The year the text of the date begins with, NaN when it does not begin
\* with four digits.
WrittenYear(date) ==
  IF Len(date) < 4 \/ \E i \in 1..4 : ~IsDigit(date[i]) THEN NaN
  ELSE 1000 * (CharCode[date[1]] - 48) + 100 * (CharCode[date[2]] - 48)
         + 10 * (CharCode[date[3]] - 48) + (CharCode[date[4]] - 48)

\* new Date(date).getFullYear()
getFullYear(date, tz) ==
  IF WrittenYear(date) # NaN /\ tz = "west" /\ Len(date) = 10
     /\ SubSeq(date, 5, 10) = <<"-", "0", "1", "-", "0", "1">>
  THEN WrittenYear(date) - 1
  ELSE WrittenYear(date)

\* TransactionUtils.getCreated: modifiedCreated when it is not empty, else
\* created, else ''.
getCreated(transaction) ==
  IF "modifiedCreated" \in DOMAIN transaction /\ transaction.modifiedCreated # <<>>
  THEN transaction.modifiedCreated
  ELSE IF "created" \in DOMAIN transaction THEN transaction.created ELSE <<>>

\* DateUtils.doesDateBelongToAPastYear: the date falls in a year other than
\* the current calendar year.
doesDateBelongToAPastYear(date) == WrittenYear(date) # currentYear

isReportListItemType(item) == "transactions" \in DOMAIN item

\* The callback of data.some in shouldShowYear.
ItemShowsYear(item, tz) ==
  IF isReportListItemType(item)
  THEN \E i \in 1..Len(item.transactions) :
         getFullYear(getCreated(item.transactions[i]), tz) # currentYear
  ELSE getFullYear(IF "modifiedCreated" \in DOMAIN item /\ item.modifiedCreated # <<>>
                   THEN item.modifiedCreated
                   ELSE IF "created" \in DOMAIN item THEN item.created ELSE <<>>,
                   tz) # currentYear

\* The body of the loop over the keys of the payload.
EntryShowsYear(entry) ==
  IF isTransactionEntry(entry.key) THEN doesDateBelongToAPastYear(getCreated(entry.value))
  ELSE IF isReportActionEntry(entry.key)
  THEN \E i \in 1..Len(entry.value) : doesDateBelongToAPastYear(entry.value[i].created)
  ELSE FALSE

\* isArray is Array.isArray(data).
shouldShowYear(d, isArray, tz) ==
  IF isArray THEN \E i \in 1..Len(d) : ItemShowsYear(d[i], tz)
  ELSE \E i \in 1..Len(d) : EntryShowsYear(d[i])

D_2023 == <<"2", "0", "2", "3", "-", "0", "6", "-", "1", "5">>

D_2024 == <<"2", "0", "2", "4", "-", "0", "6", "-", "1", "5">>

D_2025 == <<"2", "0", "2", "5", "-", "0", "6", "-", "1", "5">>

\* The dates of the transactions of the model: created alone, in the year
\* before, in the current year (on its first day and in June) or in the
\* year after; a modifiedCreated in another year than created; an empty one.
TransactionDates ==
  {[created |-> c] : c \in {D_2023, D_JAN1, D_2024, D_2025}}
    \cup {[created |-> D_2023, modifiedCreated |-> D_2024],
          [created |-> D_2024, modifiedCreated |-> <<>>]}

\* The transaction with the id, of the report 1, with the dates.
DatedTransaction(id, dates) ==
  LET entry == TransactionEntry(id, <<"1">>, [merchant |-> <<"Coffee Shop">>, modifiedMerchant |-> <<>>])
  IN [key |-> entry.key, value |-> dates @@ entry.value]

\* Up to MaxDated transactions, with the ids 1, 2, ...
DatedTransactionParts ==
  {[i \in 1..Len(ds) |-> DatedTransaction(<<CharOfCode(48 + i)>>, ds[i])] :
     ds \in SeqsUpTo(TransactionDates, MaxDated)}

\* The actions of the model: of the year before, live or deleted, of the
\* current year and of the year after.
DatedActions ==
  {[reportActionID |-> <<"5">>, accountID |-> 1, created |-> D_2023, deleted |-> FALSE],
   [reportActionID |-> <<"6">>, accountID |-> 1, created |-> D_2023, deleted |-> TRUE],
   [reportActionID |-> <<"7">>, accountID |-> 1, created |-> D_2024, deleted |-> FALSE],
   [reportActionID |-> <<"8">>, accountID |-> 1, created |-> D_2025, deleted |-> FALSE]}

\* The reportActions_ entry of the report 1 with up to MaxDated actions, or none.
DatedActionParts ==
  {IF as = <<>> THEN <<>> ELSE <<[key |-> COLLECTION_REPORT_ACTIONS \o <<"1">>, value |-> as]>> :
     as \in SeqsUpTo(DatedActions, MaxDated)}

\* The payloads: the report 1 or not, transactions of the report 1 and
\* actions of the report 1.
DatedPayloads ==
  {<<[key |-> PERSONAL_DETAILS_LIST, value |-> PersonalDetails]>> \o r \o t \o a :
     r \in {<<>>, <<ListReport(<<"1">>)>>},
     t \in DatedTransactionParts,
     a \in DatedActionParts}

\* The pairs of type and status of the three builders of getSections.
YearViews == {<<S_expense, S_all>>, <<S_expense, S_drafts>>, <<S_chat, S_all>>}

InitYear ==
  /\ timeZone \in TimeZones
  /\ yearData \in DatedPayloads
  /\ yearView \in YearViews
  /\ yearItems = <<>>
  /\ yearOfData = <<>>
  /\ yearOfItems = <<>>

IdleYear ==
  /\ timeZone = <<>>
  /\ yearData = <<>>
  /\ yearView = <<>>
  /\ yearItems = <<>>
  /\ yearOfData = <<>>
  /\ yearOfItems = <<>>

\* shouldShowYear(data) on the payload.
ShouldShowYearOfData ==
  /\ yearOfData = <<>>
  /\ yearOfData' = <<shouldShowYear(yearData, FALSE, timeZone)>>
  /\ UNCHANGED <<timeZone, yearData, yearView, yearItems, yearOfItems, exceptYear>>

\* getSections(type, status, data, metadata) on the payload.
GetSectionsOfData ==
  /\ yearItems = <<>>
  /\ yearItems' = <<getSections(yearView[1], yearView[2], yearData)>>
  /\ UNCHANGED <<timeZone, yearData, yearView, yearOfData, yearOfItems, exceptYear>>

\* shouldShowYear(data) on the list items.
ShouldShowYearOfItems ==
  /\ yearItems # <<>>
  /\ yearOfItems = <<>>
  /\ yearOfItems' = <<shouldShowYear(yearItems[1], TRUE, timeZone)>>
  /\ UNCHANGED <<timeZone, yearData, yearView, yearItems, yearOfData, exceptYear>>

NextYear == ShouldShowYearOfData \/ GetSectionsOfData \/ ShouldShowYearOfItems

\* The transactions and the report actions of the payload, each with its
\* effective date: modifiedCreated when it has one, else created.
DatesOfRecords(d) ==
  {EffectiveDate(d[i].value) : i \in {j \in 1..Len(d) : isTransactionEntry(d[j].key)}}
    \cup UNION {{a.created : a \in Range(d[i].value)} :
                  i \in {j \in 1..Len(d) : isReportActionEntry(d[j].key)}}

\* C22: shouldShowYear on a payload is true if and only if a transaction or
\* a report action of the payload has an effective date written with a year
\* other than the current one, earlier or later, and shouldShowYear on the
\* list items built from the payload gives the same answer.
C22_ShowYearIffRecordOfOtherYear ==
  /\ yearOfData # <<>> =>
       (yearOfData[1] <=> \E date \in DatesOfRecords(yearData) : WrittenYear(date) # currentYear)
  /\ yearOfData # <<>> /\ yearOfItems # <<>> => yearOfItems[1] = yearOfData[1]

(***************************************************************************)
(* Specifications: one for each part of the program, the other parts idle. *)
(***************************************************************************)
InitSpecSort == engine \in Engines /\ InitSort /\ IdleSections /\ IdleHash /\ IdleFilters /\ IdleQuery /\ IdleForm /\ IdleHook /\ IdleSanitize /\ IdleLists /\ IdleBuilder /\ IdleReportSort /\ IdleFilterString /\ IdleYear

SpecSort == InitSpecSort /\ [][NextSort]_vars

InitSpecSections == engine = "timsort" /\ IdleSort /\ InitSections /\ IdleHash /\ IdleFilters /\ IdleQuery /\ IdleForm /\ IdleHook /\ IdleSanitize /\ IdleLists /\ IdleBuilder /\ IdleReportSort /\ IdleFilterString /\ IdleYear

SpecSections == InitSpecSections /\ [][NextSections]_vars

InitSpecHash == engine \in Engines /\ IdleSort /\ IdleSections /\ InitHash /\ IdleFilters /\ IdleQuery /\ IdleForm /\ IdleHook /\ IdleSanitize /\ IdleLists /\ IdleBuilder /\ IdleReportSort /\ IdleFilterString /\ IdleYear

SpecHash == InitSpecHash /\ [][NextHash]_vars

InitSpecFilters == engine = "timsort" /\ IdleSort /\ IdleSections /\ IdleHash /\ InitFilters /\ IdleQuery /\ IdleForm /\ IdleHook /\ IdleSanitize /\ IdleLists /\ IdleBuilder /\ IdleReportSort /\ IdleFilterString /\ IdleYear

SpecFilters == InitSpecFilters /\ [][NextFilters]_vars

InitSpecQuery == engine \in Engines /\ IdleSort /\ IdleSections /\ IdleHash /\ IdleFilters /\ InitQuery /\ IdleForm /\ IdleHook /\ IdleSanitize /\ IdleLists /\ IdleBuilder /\ IdleReportSort /\ IdleFilterString /\ IdleYear

SpecQuery == InitSpecQuery /\ [][NextQuery]_vars

InitSpecForm == engine = "timsort" /\ IdleSort /\ IdleSections /\ IdleHash /\ IdleFilters /\ IdleQuery /\ InitForm /\ IdleHook /\ IdleSanitize /\ IdleLists /\ IdleBuilder /\ IdleReportSort /\ IdleFilterString /\ IdleYear

SpecForm == InitSpecForm /\ [][NextForm]_vars

InitSpecHook == engine = "timsort" /\ IdleSort /\ IdleSections /\ IdleHash /\ IdleFilters /\ IdleQuery /\ IdleForm /\ InitHook /\ IdleSanitize /\ IdleLists /\ IdleBuilder /\ IdleReportSort /\ IdleFilterString /\ IdleYear

SpecHook == InitSpecHook /\ [][NextHook]_vars

InitSpecSanitize == engine = "timsort" /\ IdleFilters /\ IdleForm /\ IdleHash /\ IdleHook /\ IdleQuery /\ IdleSections /\ IdleSort /\ InitSanitize /\ IdleLists /\ IdleBuilder /\ IdleReportSort /\ IdleFilterString /\ IdleYear

SpecSanitize == InitSpecSanitize /\ [][NextSanitize]_vars

InitSpecLists == engine \in Engines /\ IdleFilters /\ IdleForm /\ IdleHash /\ IdleHook /\ IdleQuery /\ IdleSanitize /\ IdleSections /\ IdleSort /\ InitLists /\ IdleBuilder /\ IdleReportSort /\ IdleFilterString /\ IdleYear

SpecLists == InitSpecLists /\ [][NextLists]_vars

InitSpecBuilder == engine = "timsort" /\ IdleFilters /\ IdleForm /\ IdleHash /\ IdleHook /\ IdleLists /\ IdleQuery /\ IdleSanitize /\ IdleSections /\ IdleSort /\ InitBuilder /\ IdleReportSort /\ IdleFilterString /\ IdleYear

SpecBuilder == InitSpecBuilder /\ [][NextBuilder]_vars

InitSpecReportSort == engine \in Engines /\ IdleBuilder /\ IdleFilters /\ IdleForm /\ IdleHash /\ IdleHook /\ IdleLists /\ IdleQuery /\ IdleSanitize /\ IdleSections /\ IdleSort /\ InitReportSort /\ IdleFilterString /\ IdleYear

SpecReportSort == InitSpecReportSort /\ [][NextReportSort]_vars

InitSpecFilterString == engine = "timsort" /\ IdleBuilder /\ IdleFilters /\ IdleForm /\ IdleHash /\ IdleHook /\ IdleLists /\ IdleQuery /\ IdleReportSort /\ IdleSanitize /\ IdleSections /\ IdleSort /\ InitFilterString /\ IdleYear

SpecFilterString == InitSpecFilterString /\ [][NextFilterString]_vars

InitSpecYear == engine = "timsort" /\ IdleBuilder /\ IdleFilterString /\ IdleFilters /\ IdleForm /\ IdleHash /\ IdleHook /\ IdleLists /\ IdleQuery /\ IdleReportSort /\ IdleSanitize /\ IdleSections /\ IdleSort /\ InitYear

SpecYear == InitSpecYear /\ [][NextYear]_vars

InitSpecStringSort == engine \in Engines /\ IdleBuilder /\ IdleFilterString /\ IdleFilters /\ IdleForm /\ IdleHash /\ IdleHook /\ IdleLists /\ IdleQuery /\ IdleReportSort /\ IdleSanitize /\ IdleSections /\ InitStringSort /\ IdleYear

SpecStringSort == InitSpecStringSort /\ [][NextSort]_vars

====
